---- MODULE Spec2Model ----
(***************************************************************************)
(* A model of the on-disk B+ tree of findb (src/src/btree/file.rs) and of  *)
(* its CLOCK page cache (src/src/btree/cache.rs): the bulk loader          *)
(* BTree::write_from_iterator, BTree::from_file, BTree::query, the query   *)
(* iterator QueryResultIterator::next / iterate and PageCache::load.       *)
(*                                                                         *)
(* A page buffer is modelled by its decoded fields: the three header words *)
(* page_type, num_keys, extra_page_num and the key_capacity entry slots,   *)
(* each a key and the 4-byte word stored after it (a leaf's value, an      *)
(* inner page's child page number).  Slot i of the code (0-based) is       *)
(* element i + 1 of the sequences keys and values.                         *)
(***************************************************************************)
EXTENDS Integers, Sequences, FiniteSets, TLC

VARIABLES
    source,        \* the (Key, Value) pairs handed to write_from_iterator
    page_size,     \* the page_size handed to write_from_iterator
    file,          \* the file on disk: its 12-byte header and its pages
    file_header,   \* BTree.file_header (file.rs:276)
    page_cache,    \* BTree.page_cache, a PageCache (cache.rs:61-70)
    iter,          \* the live QueryResultIterator (file.rs:471-478)
    results,       \* history: the results next() has yielded so far
    walked,        \* history: the entries the walk inspected up to its first end
    descent,       \* history: what BTree::query computed and load returned
    loaded,        \* history: the last PageCache::load call and what it returned
    mem,           \* a mem::BTree (mem.rs:372-375) and the nodes it owns
    replay,        \* history: the reference map and the last call on mem
    pc             \* the caller's position

vars == <<source, page_size, file, file_header, page_cache, iter, results,
          walked, descent, loaded, mem, replay, pc>>

(***************************************************************************)
(* Bounds of the model.                                                    *)
(***************************************************************************)
MaxEntries == 4
MaxKeyCapacity == 3
MaxSlots == 2
MaxPages == 3
MaxClockSlots == 9
MaxSearchKeys == 5
MaxMemKeys == 5
MaxMemCapacity == 3
MaxMemNodes == 9
MaxLoadEntries == 8
MaxPagesRead == 3

\* The sample values the key fields and the query fields are drawn from.
AssetIds == 0..1
Dates == 1..2
Timestamps == 1..2
QueryAssetIds == 0..1
QueryDates == 0..2
QueryTimestamps == 0..2

(***************************************************************************)
(* Constants of the program.                                               *)
(***************************************************************************)
U32_SIZE == 4
\* u32::max_value(), the "no predecessor leaf" sentinel and the value that
\* 0 - 1 wraps to.  TLC's integers are 32-bit signed, so the model's word is
\* one bit narrower than the program's: the largest word is 2^31 - 1.
U32_MAX == 2147483647
FILE_HEADER_SIZE == 12
LEAF_TYPE == 0
INNER_TYPE == 1
PAGE_HEADER_SIZE == 4 * U32_SIZE
KEY_VALUE_SIZE == 12 + 4

page_size_for_keys(num_keys) == PAGE_HEADER_SIZE + num_keys * KEY_VALUE_SIZE

(***************************************************************************)
(* Keys: #[derive(PartialOrd)] on Key compares (asset_id, date, timestamp) *)
(* lexicographically.                                                      *)
(***************************************************************************)
Key(a, d, t) == [asset_id |-> a, date |-> d, timestamp |-> t]

ZeroKey == Key(0, 0, 0)

KeyLess(a, b) ==
    \/ a.asset_id < b.asset_id
    \/ a.asset_id = b.asset_id /\ a.date < b.date
    \/ a.asset_id = b.asset_id /\ a.date = b.date /\ a.timestamp < b.timestamp

KeyGreater(a, b) == KeyLess(b, a)

(***************************************************************************)
(* Page accessors of trait Page / MutPage.                                 *)
(***************************************************************************)
key_capacity(page) == Len(page.keys)

KeyCapacityOf(size) == (size - PAGE_HEADER_SIZE) \div KEY_VALUE_SIZE

PageBuffer_new(size, type) ==
    [page_type |-> type, num_keys |-> 0, extra_page_num |-> 0,
     keys |-> [i \in 1..KeyCapacityOf(size) |-> ZeroKey],
     values |-> [i \in 1..KeyCapacityOf(size) |-> 0]]

\* PageBuffer::clear zeroes every byte of the buffer, the header included.
clear(page) ==
    [page_type |-> 0, num_keys |-> 0, extra_page_num |-> 0,
     keys |-> [i \in 1..key_capacity(page) |-> ZeroKey],
     values |-> [i \in 1..key_capacity(page) |-> 0]]

\* Reading slot `index` slices the buffer: an index past the last slot panics.
InBounds(page, index) == index < key_capacity(page)

key(page, index) == page.keys[index + 1]

value(page, index) == page.values[index + 1]

page_number(page, index) == page.values[index + 1]

set_key(page, index, k) == [page EXCEPT !.keys[index + 1] = k]

set_value(page, index, v) == [page EXCEPT !.values[index + 1] = v]

set_page_number(page, index, pn) == [page EXCEPT !.values[index + 1] = pn]

set_num_keys(page, n) == [page EXCEPT !.num_keys = n]

\* MutPage::set_extra_page_num that writes nothing.
set_extra_page_num_Noop(page, pn) == page

set_extra_page_num(page, pn) == [page EXCEPT !.extra_page_num = pn]

(***************************************************************************)
(* Page::index_of: the binary search of file.rs:149-170.                   *)
(***************************************************************************)
RECURSIVE index_of_loop(_, _, _, _)
index_of_loop(page, k, min, max) ==
    IF min < max
    THEN LET midpoint == (max + min) \div 2
             midpoint_key == key(page, midpoint)
         IN  IF KeyGreater(k, midpoint_key)
             THEN index_of_loop(page, k, midpoint + 1, max)
             ELSE IF KeyLess(k, midpoint_key)
             THEN index_of_loop(page, k, min, midpoint)
             ELSE IF page.page_type = LEAF_TYPE THEN midpoint ELSE midpoint + 1
    ELSE min

\* Page::index_of that treats every page as a leaf.
index_of_Leafwise(page, k) ==
    index_of_loop([page EXCEPT !.page_type = LEAF_TYPE], k, 0, page.num_keys)

index_of(page, k) == index_of_loop(page, k, 0, page.num_keys)

(***************************************************************************)
(* BTree::add_to_parent (file.rs:381-423).  page_number is the &mut        *)
(* counter of the caller; filled is the returned vector of finalised       *)
(* inner pages (None is the empty sequence).                               *)
(***************************************************************************)
RECURSIVE add_to_parent(_, _, _, _, _)
\* add_to_parent whose overflow branch leaves *page_number as it is.
add_to_parent_NoBump(k, pn, index, lineage, size) ==
    IF index = Len(lineage)
    THEN [lineage |-> Append(lineage,
                             set_page_number(PageBuffer_new(size, INNER_TYPE), 0, pn)),
          page_number |-> pn, filled |-> <<>>]
    ELSE LET inner_buf == lineage[index + 1]
             num_keys == inner_buf.num_keys
             capacity == key_capacity(inner_buf)
         IN  IF num_keys < capacity
             THEN LET with_key == set_key(inner_buf, num_keys, k)
                      with_child ==
                          IF num_keys < capacity - 1
                          THEN set_page_number(with_key, num_keys + 1, pn)
                          ELSE set_extra_page_num(with_key, pn)
                  IN  [lineage |-> [lineage EXCEPT ![index + 1] =
                                        set_num_keys(with_child, num_keys + 1)],
                       page_number |-> pn, filled |-> <<>>]
             ELSE LET swapped == [lineage EXCEPT ![index + 1] =
                                      PageBuffer_new(size, INNER_TYPE)]
                      res == add_to_parent(k, pn, index + 1, swapped, size)
                  IN  [lineage |-> res.lineage, page_number |-> res.page_number,
                       filled |-> Append(res.filled, inner_buf)]

add_to_parent(k, pn, index, lineage, size) ==
    IF index = Len(lineage)
    THEN [lineage |-> Append(lineage,
                             set_page_number(PageBuffer_new(size, INNER_TYPE), 0, pn)),
          page_number |-> pn, filled |-> <<>>]
    ELSE LET inner_buf == lineage[index + 1]
             num_keys == inner_buf.num_keys
             capacity == key_capacity(inner_buf)
         IN  IF num_keys < capacity
             THEN LET with_key == set_key(inner_buf, num_keys, k)
                      with_child ==
                          IF num_keys < capacity - 1
                          THEN set_page_number(with_key, num_keys + 1, pn)
                          ELSE set_extra_page_num(with_key, pn)
                  IN  [lineage |-> [lineage EXCEPT ![index + 1] =
                                        set_num_keys(with_child, num_keys + 1)],
                       page_number |-> pn, filled |-> <<>>]
             ELSE \* push a new inner page, swap_remove(index) puts it at index
                  LET swapped == [lineage EXCEPT ![index + 1] =
                                      PageBuffer_new(size, INNER_TYPE)]
                      res == add_to_parent(k, pn + 1, index + 1, swapped, size)
                  IN  [lineage |-> res.lineage, page_number |-> res.page_number,
                       filled |-> Append(res.filled, inner_buf)]

Reverse(s) == [i \in 1..Len(s) |-> s[Len(s) + 1 - i]]

Min(a, b) == IF a <= b THEN a ELSE b

(***************************************************************************)
(* BTree::write_from_iterator (file.rs:296-379).  The loader state `st` is *)
(* the function's locals and the pages written to the file so far.         *)
(***************************************************************************)
\* leaf_round that fills the slots of the leaf from the last one down.
leaf_round_Backwards(st) ==
    LET up == IF st.last_leaf_page_num < U32_MAX
              THEN LET res == add_to_parent(key(st.leaf_buf, 0), st.page_count, 0,
                                            st.lineage, st.page_size)
                   IN  [st EXCEPT !.lineage = res.lineage,
                                  !.pages = @ \o Reverse(res.filled),
                                  !.page_count = res.page_number + 1,
                                  !.leaf_buf = clear(@)]
              ELSE st
        n == Min(key_capacity(up.leaf_buf), Len(up.source))
        filled_leaf ==
            [up.leaf_buf EXCEPT
                !.keys = [i \in 1..key_capacity(up.leaf_buf) |->
                             IF i <= n THEN up.source[n + 1 - i].key ELSE @[i]],
                !.values = [i \in 1..key_capacity(up.leaf_buf) |->
                               IF i <= n THEN up.source[n + 1 - i].value ELSE @[i]],
                !.num_keys = IF n > 0 THEN n ELSE @]
        leaf == set_extra_page_num(filled_leaf, up.last_leaf_page_num)
    IN  [up EXCEPT !.source = SubSeq(@, n + 1, Len(@)),
                   !.leaf_buf = leaf,
                   !.last_leaf_page_num = up.page_count,
                   !.pages = Append(@, leaf)]

\* leaf_round that takes a single entry of the source for each leaf.
leaf_round_OneEntry(st) ==
    LET up == IF st.last_leaf_page_num < U32_MAX
              THEN LET res == add_to_parent(key(st.leaf_buf, 0), st.page_count, 0,
                                            st.lineage, st.page_size)
                   IN  [st EXCEPT !.lineage = res.lineage,
                                  !.pages = @ \o Reverse(res.filled),
                                  !.page_count = res.page_number + 1,
                                  !.leaf_buf = clear(@)]
              ELSE st
        n == Min(1, Len(up.source))
        filled_leaf ==
            [up.leaf_buf EXCEPT
                !.keys = [i \in 1..key_capacity(up.leaf_buf) |->
                             IF i <= n THEN up.source[i].key ELSE @[i]],
                !.values = [i \in 1..key_capacity(up.leaf_buf) |->
                               IF i <= n THEN up.source[i].value ELSE @[i]],
                !.num_keys = IF n > 0 THEN n ELSE @]
        leaf == set_extra_page_num(filled_leaf, up.last_leaf_page_num)
    IN  [up EXCEPT !.source = SubSeq(@, n + 1, Len(@)),
                   !.leaf_buf = leaf,
                   !.last_leaf_page_num = up.page_count,
                   !.pages = Append(@, leaf)]

\* One round of the loop of file.rs:318-349.
leaf_round(st) ==
    LET up == IF st.last_leaf_page_num < U32_MAX
              THEN LET res == add_to_parent(key(st.leaf_buf, 0), st.page_count, 0,
                                            st.lineage, st.page_size)
                   IN  [st EXCEPT !.lineage = res.lineage,
                                  !.pages = @ \o Reverse(res.filled),
                                  !.page_count = res.page_number + 1,
                                  !.leaf_buf = clear(@)]
              ELSE st
        n == Min(key_capacity(up.leaf_buf), Len(up.source))
        filled_leaf ==
            [up.leaf_buf EXCEPT
                !.keys = [i \in 1..key_capacity(up.leaf_buf) |->
                             IF i <= n THEN up.source[i].key ELSE @[i]],
                !.values = [i \in 1..key_capacity(up.leaf_buf) |->
                               IF i <= n THEN up.source[i].value ELSE @[i]],
                !.num_keys = IF n > 0 THEN n ELSE @]
        leaf == set_extra_page_num(filled_leaf, up.last_leaf_page_num)
    IN  [up EXCEPT !.source = SubSeq(@, n + 1, Len(@)),
                   !.leaf_buf = leaf,
                   !.last_leaf_page_num = up.page_count,
                   !.pages = Append(@, leaf)]

RECURSIVE leaf_loop(_)
leaf_loop(st) == IF st.source = <<>> THEN st ELSE leaf_loop(leaf_round(st))

\* The loop of file.rs:353-369 from `index` on; set_key at slot num_keys
\* panics when the inner page already holds key_capacity keys.
RECURSIVE finalise(_, _)
finalise(st, index) ==
    IF index >= Len(st.lineage) THEN st
    ELSE LET last_key == key(st.leaf_buf, 0)
             page_buf == st.lineage[index + 1]
             num_keys == page_buf.num_keys
             capacity == key_capacity(page_buf)
         IN  IF ~InBounds(page_buf, num_keys)
             THEN [st EXCEPT !.status = "Panic"]
             ELSE LET with_key == set_key(page_buf, num_keys, last_key)
                      with_child ==
                          IF num_keys < capacity - 1
                          THEN set_page_number(with_key, num_keys + 1, st.page_count - 1)
                          ELSE set_extra_page_num(with_key, st.page_count - 1)
                      done == set_num_keys(with_child, num_keys + 1)
                  IN  finalise([st EXCEPT !.lineage[index + 1] = done,
                                          !.pages = Append(@, done),
                                          !.page_count = @ + 1],
                               index + 1)

\* A FileHeader whose root_page_num stays the 0 of the first header written.
FileHeader_RootZero(size, count, root) ==
    [page_size |-> size, page_count |-> count, root_page_num |-> 0]

FileHeader(size, count, root) ==
    [page_size |-> size, page_count |-> count, root_page_num |-> root]

\* The locals of write_from_iterator before its loop (file.rs:310-316).
loader_start(size, src) ==
    [source |-> src, page_size |-> size,
     leaf_buf |-> PageBuffer_new(size, LEAF_TYPE),
     page_count |-> 0, last_leaf_page_num |-> U32_MAX,
     lineage |-> <<>>, pages |-> <<>>, status |-> "Ok"]

write_from_iterator(size, src) ==
    LET start == loader_start(size, src)
        leaves == leaf_loop(start)
        built == finalise([leaves EXCEPT !.page_count = @ + 1], 0)
    IN  IF built.status = "Ok"
        THEN [status |-> "Ok",
              header |-> FileHeader(size, built.page_count, built.page_count - 1),
              pages |-> built.pages]
        ELSE [status |-> "Panic",
              header |-> FileHeader(size, 0, 0),
              pages |-> built.pages]

(***************************************************************************)
(* Clock (cache.rs:5-59).  clock is the bitmap, one byte per eight slots;  *)
(* the bit operations are done by arithmetic on the byte.                  *)
(***************************************************************************)
RECURSIVE Pow2(_)
Pow2(n) == IF n = 0 THEN 1 ELSE 2 * Pow2(n - 1)

Clock_new(slots) ==
    [clock |-> [i \in 1..(slots \div 8 + (IF slots % 8 = 0 THEN 0 ELSE 1)) |-> 0],
     slots |-> slots, slot_index |-> 0]

test(c, slot) == (c.clock[slot \div 8 + 1] \div Pow2(slot % 8)) % 2 # 0

set(c, slot) ==
    IF test(c, slot) THEN c
    ELSE [c EXCEPT !.clock[slot \div 8 + 1] = @ + Pow2(slot % 8)]

unset(c, slot) ==
    IF test(c, slot)
    THEN [c EXCEPT !.clock[slot \div 8 + 1] = @ - Pow2(slot % 8)]
    ELSE c

advance(c) == [c EXCEPT !.slot_index = (@ + 1) % c.slots]

\* Clock::evict without the advance past the victim (cache.rs:56).
RECURSIVE evict_KeepHand(_)
evict_KeepHand(c) ==
    IF test(c, c.slot_index)
    THEN evict_KeepHand(advance(unset(c, c.slot_index)))
    ELSE [clock |-> c, res |-> c.slot_index]

RECURSIVE evict(_)
evict(c) ==
    IF test(c, c.slot_index)
    THEN evict(advance(unset(c, c.slot_index)))
    ELSE [clock |-> advance(c), res |-> c.slot_index]

(***************************************************************************)
(* PageCache (cache.rs:61-128).  buf[slot] is the page-sized window        *)
(* buf[slot * page_size .. (slot + 1) * page_size] of the pool.  The maps  *)
(* are functions whose domain is the set of keys present.                  *)
(***************************************************************************)
EmptyMap == [x \in {} |-> 0]

insert(map, k, v) == [x \in DOMAIN map \cup {k} |-> IF x = k THEN v ELSE map[x]]

PageCache_new(size, pages, header_bytes) ==
    [page_size |-> size, pages |-> pages, header_bytes |-> header_bytes,
     buf |-> [slot \in 0..(pages - 1) |-> PageBuffer_new(size, 0)],
     clock |-> Clock_new(pages),
     page_map |-> EmptyMap, slot_map |-> EmptyMap]

\* file.seek(SeekFrom::Start(offset)) followed by file.read(buf) with a
\* page-sized buf: the page of the file that starts at byte `offset`; at or
\* past the end of the file read() returns Ok(0) and leaves buf as it was.
read_at(f, offset, buf) ==
    LET p == (offset - FILE_HEADER_SIZE) \div f.header.page_size
    IN  IF p < Len(f.pages) THEN f.pages[p + 1] ELSE buf

page_from_slot(cache, f, slot_number, read) ==
    LET page_start == slot_number * cache.page_size
        offset == page_start + cache.header_bytes
        filled == IF read
                  THEN [cache EXCEPT !.buf[slot_number] = read_at(f, offset, @)]
                  ELSE cache
    IN  [cache |-> [filled EXCEPT !.clock = set(@, slot_number)],
         slot |-> slot_number]

\* PageCache::load whose miss branch calls Clock::evict whether or not a slot
\* is still unallocated.
load_AlwaysEvict(cache, f, pn) ==
    IF pn \in DOMAIN cache.page_map
    THEN LET slot_number == cache.page_map[pn]
         IN  page_from_slot([cache EXCEPT !.clock = set(@, slot_number)],
                            f, slot_number, FALSE)
    ELSE LET ev == evict(cache.clock)
             mapped == [cache EXCEPT
                           !.clock = ev.clock,
                           !.page_map = insert(@, pn, ev.res),
                           !.slot_map = insert(@, ev.res, pn)]
         IN  page_from_slot(mapped, f, ev.res, TRUE)

\* PageCache::load that takes the miss branch for every page (cache.rs:101-111).
load_AlwaysMiss(cache, f, pn) ==
    LET full == ~(Cardinality(DOMAIN cache.page_map) < cache.pages)
        ev == evict(cache.clock)
        slot_number == IF full THEN ev.res
                       ELSE Cardinality(DOMAIN cache.page_map)
        mapped == [cache EXCEPT
                      !.clock = IF full THEN ev.clock ELSE @,
                      !.page_map = insert(@, pn, slot_number),
                      !.slot_map = insert(@, slot_number, pn)]
    IN  page_from_slot(mapped, f, slot_number, TRUE)

load(cache, f, pn) ==
    IF pn \in DOMAIN cache.page_map
    THEN LET slot_number == cache.page_map[pn]
         IN  page_from_slot([cache EXCEPT !.clock = set(@, slot_number)],
                            f, slot_number, FALSE)
    ELSE LET full == ~(Cardinality(DOMAIN cache.page_map) < cache.pages)
             ev == evict(cache.clock)
             slot_number == IF full THEN ev.res
                            ELSE Cardinality(DOMAIN cache.page_map)
             mapped == [cache EXCEPT
                           !.clock = IF full THEN ev.clock ELSE @,
                           !.page_map = insert(@, pn, slot_number),
                           !.slot_map = insert(@, slot_number, pn)]
         IN  page_from_slot(mapped, f, slot_number, TRUE)

\* PageCache::load(pn) when the seek or the read of page_from_slot fails: a
\* load only reads on a miss, and then both inserts of cache.rs:108-109 (and
\* the eviction) are done; the `?` returns before clock.set, and a read that
\* fails has read no byte, so the slot's buffer is as it was.
load_fails(cache, f, pn) ==
    LET full == ~(Cardinality(DOMAIN cache.page_map) < cache.pages)
        ev == evict(cache.clock)
        slot_number == IF full THEN ev.res
                       ELSE Cardinality(DOMAIN cache.page_map)
    IN  [cache |-> [cache EXCEPT
                       !.clock = IF full THEN ev.clock ELSE @,
                       !.page_map = insert(@, pn, slot_number),
                       !.slot_map = insert(@, slot_number, pn)],
         slot |-> slot_number]

\* The Page { buf } that a load returned: a view of the slot's window.
Loaded(l) == l.cache.buf[l.slot]

(***************************************************************************)
(* Option<u32>.                                                            *)
(***************************************************************************)
None == <<>>

Some(x) == <<x>>

Unwrap(o) == o[1]

(***************************************************************************)
(* BTree::query (file.rs:425-452).  `num_keys - 1` on an empty leaf        *)
(* overflows: with overflow checks (a debug build) it panics, without (a   *)
(* release build) it wraps to u32::max_value().                            *)
(***************************************************************************)
RECURSIVE descend(_, _, _, _)
descend(l, f, pn, k) ==
    IF Loaded(l).page_type = INNER_TYPE
    THEN LET page == Loaded(l)
             index == index_of(page, k)
             child == IF index < key_capacity(page)
                      THEN page_number(page, index)
                      ELSE page.extra_page_num
         IN  descend(load(l.cache, f, child), f, child, k)
    ELSE [l |-> l, page_num |-> pn]

\* BTree::query without the clamp of key_index to num_keys - 1 (file.rs:445).
query_NoClamp(header, cache, f, q, overflow_checks) ==
    LET k == Key(q.asset_id, q.end_date, q.timestamp)
        d == descend(load(cache, f, header.root_page_num), f, header.root_page_num, k)
        page == Loaded(d.l)
    IN  [status |-> "Ok", cache |-> d.l.cache, page_num |-> d.page_num,
         key_index |-> index_of(page, k), page |-> page]

query(header, cache, f, q, overflow_checks) ==
    LET k == Key(q.asset_id, q.end_date, q.timestamp)
        d == descend(load(cache, f, header.root_page_num), f, header.root_page_num, k)
        page == Loaded(d.l)
    IN  IF page.num_keys = 0 /\ overflow_checks
        THEN [status |-> "Panic", cache |-> d.l.cache, page_num |-> d.page_num,
              key_index |-> 0, page |-> page]
        ELSE [status |-> "Ok", cache |-> d.l.cache, page_num |-> d.page_num,
              key_index |-> Min(index_of(page, k),
                                IF page.num_keys = 0 THEN U32_MAX
                                ELSE page.num_keys - 1),
              page |-> page]

QueryResultIterator_new(q, pn, key_index) ==
    [page_num |-> pn, key_index |-> Some(key_index), query |-> q,
     last_yielded_date |-> None, pages_read |-> 1]

(***************************************************************************)
(* QueryResultIterator::iterate (file.rs:526-570): one step of the walk.   *)
(***************************************************************************)
QueryResult(q, k, v) == [id |-> q.id, key |-> k, value |-> v]

NoResult == [id |-> 0, key |-> ZeroKey, value |-> 0]

\* The End test of file.rs:543.
PastRegion(k, q) == k.asset_id < q.asset_id \/ k.date < q.start_date

\* SkipsEntry without the test `d == key.date` of its second arm.
SkipsEntry_NoDateTest(last_yielded_date, k, q) ==
    \/ /\ last_yielded_date = None
       /\ \/ k.asset_id > q.asset_id
          \/ k.date > q.end_date
          \/ k.timestamp > q.timestamp
    \/ /\ last_yielded_date # None
       /\ k.timestamp > q.timestamp

\* The two guarded arms of `match self.last_yielded_date` (file.rs:551-560)
\* that answer Continue; the remaining arm yields the entry.
SkipsEntry(last_yielded_date, k, q) ==
    \/ /\ last_yielded_date = None
       /\ \/ k.asset_id > q.asset_id
          \/ k.date > q.end_date
          \/ k.timestamp > q.timestamp
    \/ /\ last_yielded_date # None
       /\ \/ Unwrap(last_yielded_date) = k.date
          \/ k.timestamp > q.timestamp

\* iterate as it would be if the End state consumed the entry it stopped at.
iterate_StepOnEnd(it, cache, f, overflow_checks) ==
    LET l == load(cache, f, it.page_num)
        page == Loaded(l)
        q == it.query
    IN  IF it.key_index = None
        THEN IF page.extra_page_num = U32_MAX
             THEN [state |-> "YieldNone", it |-> it, cache |-> l.cache,
                   result |-> NoResult, read |-> <<>>]
             ELSE LET l2 == load(l.cache, f, page.extra_page_num)
                      num_keys == Loaded(l2).num_keys
                      moved == [it EXCEPT !.page_num = page.extra_page_num,
                                          !.pages_read = @ + 1]
                  IN  IF num_keys = 0 /\ overflow_checks
                      THEN [state |-> "Panic", it |-> moved, cache |-> l2.cache,
                            result |-> NoResult, read |-> <<>>]
                      ELSE [state |-> "Continue",
                            it |-> [moved EXCEPT !.key_index =
                                       Some(IF num_keys = 0 THEN U32_MAX
                                            ELSE num_keys - 1)],
                            cache |-> l2.cache, result |-> NoResult, read |-> <<>>]
        ELSE LET key_index == Unwrap(it.key_index)
             IN  IF ~InBounds(page, key_index)
                 THEN [state |-> "Panic", it |-> it, cache |-> l.cache,
                       result |-> NoResult, read |-> <<>>]
                 ELSE
                 LET k == key(page, key_index)
                     entry == <<[key |-> k, value |-> value(page, key_index)]>>
                     stepped == [it EXCEPT !.key_index =
                                    IF key_index = 0 THEN None
                                    ELSE Some(key_index - 1)]
                 IN  IF PastRegion(k, q)
                     THEN [state |-> "YieldNone", it |-> stepped, cache |-> l.cache,
                           result |-> NoResult, read |-> entry]
                     ELSE IF SkipsEntry(it.last_yielded_date, k, q)
                     THEN [state |-> "Continue", it |-> stepped, cache |-> l.cache,
                           result |-> NoResult, read |-> entry]
                     ELSE [state |-> "YieldResult", it |-> stepped, cache |-> l.cache,
                           result |-> QueryResult(q, k, value(page, key_index)),
                           read |-> entry]

iterate(it, cache, f, overflow_checks) ==
    LET l == load(cache, f, it.page_num)
        page == Loaded(l)
        q == it.query
    IN  IF it.key_index = None
        THEN IF page.extra_page_num = U32_MAX
             THEN [state |-> "YieldNone", it |-> it, cache |-> l.cache,
                   result |-> NoResult, read |-> <<>>]
             ELSE LET l2 == load(l.cache, f, page.extra_page_num)
                      num_keys == Loaded(l2).num_keys
                      moved == [it EXCEPT !.page_num = page.extra_page_num,
                                          !.pages_read = @ + 1]
                  IN  IF num_keys = 0 /\ overflow_checks
                      THEN [state |-> "Panic", it |-> moved, cache |-> l2.cache,
                            result |-> NoResult, read |-> <<>>]
                      ELSE [state |-> "Continue",
                            it |-> [moved EXCEPT !.key_index =
                                       Some(IF num_keys = 0 THEN U32_MAX
                                            ELSE num_keys - 1)],
                            cache |-> l2.cache, result |-> NoResult, read |-> <<>>]
        ELSE LET key_index == Unwrap(it.key_index)
             IN  IF ~InBounds(page, key_index)
                 THEN [state |-> "Panic", it |-> it, cache |-> l.cache,
                       result |-> NoResult, read |-> <<>>]
                 ELSE
                 LET k == key(page, key_index)
                     entry == <<[key |-> k, value |-> value(page, key_index)]>>
                     stepped == [it EXCEPT !.key_index =
                                    IF key_index = 0 THEN None
                                    ELSE Some(key_index - 1)]
                 IN  IF PastRegion(k, q)
                     THEN [state |-> "YieldNone", it |-> it, cache |-> l.cache,
                           result |-> NoResult, read |-> entry]
                     ELSE IF SkipsEntry(it.last_yielded_date, k, q)
                     THEN [state |-> "Continue", it |-> stepped, cache |-> l.cache,
                           result |-> NoResult, read |-> entry]
                     ELSE [state |-> "YieldResult", it |-> stepped, cache |-> l.cache,
                           result |-> QueryResult(q, k, value(page, key_index)),
                           read |-> entry]

(***************************************************************************)
(* QueryResultIterator::next (file.rs:508-524): iterate until a result or  *)
(* the end.  read collects the entries the steps of this call inspected.   *)
(***************************************************************************)
RECURSIVE next_loop(_, _, _, _, _)
next_loop(it, cache, f, overflow_checks, read) ==
    LET s == iterate(it, cache, f, overflow_checks)
        t == [s EXCEPT !.read = read \o @]
    IN  IF s.state = "Continue"
        THEN next_loop(s.it, s.cache, f, overflow_checks, t.read)
        ELSE IF s.state = "YieldResult"
        THEN [t EXCEPT !.it.last_yielded_date = Some(s.result.key.date)]
        ELSE t

next(it, cache, f, overflow_checks) == next_loop(it, cache, f, overflow_checks, <<>>)

(***************************************************************************)
(* The inputs: strictly ascending sources of at most MaxEntries entries,   *)
(* page sizes that hold 1..MaxKeyCapacity entries, and queries.  The value *)
(* of an entry is opaque to the code; each key carries its own.            *)
(***************************************************************************)
Keys == {Key(a, d, t) : a \in AssetIds, d \in Dates, t \in Timestamps}

ValueOf(k) == 100 * (k.asset_id + 1) + 10 * k.date + k.timestamp

RECURSIVE Ascending(_)
Ascending(ks) ==
    IF ks = {} THEN <<>>
    ELSE LET least == CHOOSE k \in ks : \A o \in ks : o = k \/ KeyLess(k, o)
         IN  <<[key |-> least, value |-> ValueOf(least)]>> \o Ascending(ks \ {least})

Sources == {Ascending(ks) : ks \in {t \in SUBSET Keys : Cardinality(t) <= MaxEntries}}

PageSizes == {page_size_for_keys(n) : n \in 1..MaxKeyCapacity}

Queries ==
    [id : {1}, asset_id : QueryAssetIds, start_date : QueryDates,
     end_date : QueryDates, timestamp : QueryTimestamps]

NoFile == [status |-> "None", header |-> FileHeader(0, 0, 0), pages |-> <<>>]

NoCache == PageCache_new(0, 0, 0)

NoQuery == [id |-> 0, asset_id |-> 0, start_date |-> 0, end_date |-> 0, timestamp |-> 0]

NoIter == [page_num |-> 0, key_index |-> None, query |-> NoQuery,
           last_yielded_date |-> None, pages_read |-> 0]

NoDescent == [page_num |-> 0, key_index |-> 0, page |-> PageBuffer_new(0, 0)]

\* No mem::BTree, and nothing called on it.
NoTree == [capacity |-> 0, root |-> 0, nodes |-> <<>>]

NoReplay == [map |-> {}, deleted |-> FALSE, call |-> "none", args |-> <<>>,
             ret |-> <<>>, ref_ret |-> <<>>]

NoLoad == [page_number |-> 0, slot |-> 0, page |-> PageBuffer_new(0, 0),
           miss |-> FALSE, victim |-> None, err |-> FALSE]

(***************************************************************************)
(* The program: build a file, open it, query it, draw the results.         *)
(***************************************************************************)
Init ==
    /\ source = <<>>
    /\ page_size = 0
    /\ file = NoFile
    /\ file_header = FileHeader(0, 0, 0)
    /\ page_cache = NoCache
    /\ iter = NoIter
    /\ results = <<>>
    /\ walked = <<>>
    /\ descent = NoDescent
    /\ loaded = NoLoad
    /\ mem = NoTree
    /\ replay = NoReplay
    /\ pc = "start"

\* BTree::write_from_iterator(file_name, size, src)
WriteFromIterator ==
    /\ pc = "start"
    /\ \E size \in PageSizes, src \in Sources :
          /\ source' = src
          /\ page_size' = size
          /\ file' = write_from_iterator(size, src)
          /\ pc' = IF file'.status = "Ok" THEN "built" ELSE "panicked"
    /\ UNCHANGED <<mem, replay, file_header, page_cache, iter, results, walked, descent, loaded>>

\* BTree::from_file(file, page_cache_size) (file.rs:281-292)
FromFile ==
    /\ pc = "built"
    /\ \E page_cache_size \in 1..MaxSlots :
          /\ file_header' = file.header
          /\ page_cache' = PageCache_new(file.header.page_size, page_cache_size,
                                         FILE_HEADER_SIZE)
    /\ pc' = "open"
    /\ UNCHANGED <<mem, replay, source, page_size, file, iter, results, walked, descent, loaded>>

\* BTree::query(q): the handle is borrowed mutably by the iterator it returns,
\* so no second query starts while an iterator is alive.
Query ==
    /\ pc = "open"
    /\ \E q \in Queries, overflow_checks \in BOOLEAN :
          \E r \in {query(file_header, page_cache, file, q, overflow_checks)} :
              /\ page_cache' = r.cache
              /\ descent' = [page_num |-> r.page_num, key_index |-> r.key_index,
                             page |-> r.page]
              /\ iter' = IF r.status = "Ok"
                         THEN QueryResultIterator_new(q, r.page_num, r.key_index)
                         ELSE [NoIter EXCEPT !.query = q]
              /\ pc' = IF r.status = "Ok" THEN "iterating" ELSE "panicked"
    /\ results' = <<>>
    /\ walked' = <<>>
    /\ UNCHANGED <<mem, replay, source, page_size, file, file_header, loaded>>

\* QueryResultIterator::next()
Next_ ==
    /\ pc \in {"iterating", "ended"}
    /\ \E overflow_checks \in BOOLEAN :
          \E r \in {next(iter, page_cache, file, overflow_checks)} :
              /\ iter' = r.it
              /\ page_cache' = r.cache
              /\ results' = IF r.state = "YieldResult"
                            THEN Append(results, r.result) ELSE results
              /\ walked' = IF pc = "ended" THEN walked ELSE walked \o r.read
              /\ pc' = CASE r.state = "YieldResult" -> pc
                         [] r.state = "YieldNone" -> "ended"
                         [] OTHER -> "panicked"
    /\ UNCHANGED <<mem, replay, source, page_size, file, file_header, descent, loaded>>

\* The caller drops the iterator, which ends its borrow of the page cache: the
\* handle, with the cache as the walk left it, can be queried again.
Drop ==
    /\ pc \in {"iterating", "ended"}
    /\ iter' = NoIter
    /\ results' = <<>>
    /\ walked' = <<>>
    /\ descent' = NoDescent
    /\ pc' = "open"
    /\ UNCHANGED <<mem, replay, source, page_size, file, file_header, page_cache, loaded>>

Next == WriteFromIterator \/ FromFile \/ Query \/ Next_ \/ Drop

Spec == Init /\ [][Next]_vars

(***************************************************************************)
(* The page cache on its own: PageCache::new over a file of 1..MaxPages    *)
(* pages of distinct contents, then any sequence of PageCache::load calls  *)
(* for pages of that file.                                                 *)
(***************************************************************************)
CachePage(size, i) ==
    set_num_keys(set_value(set_key(PageBuffer_new(size, LEAF_TYPE), 0,
                                   Key(i, i, i)), 0, i), 1)

CacheFile(size, n) ==
    [status |-> "Ok", header |-> FileHeader(size, n, n - 1),
     pages |-> [i \in 1..n |-> CachePage(size, i - 1)]]

InitCache ==
    /\ source = <<>>
    /\ page_size = page_size_for_keys(1)
    /\ \E n \in 1..MaxPages : file = CacheFile(page_size, n)
    /\ file_header = file.header
    /\ \E pages \in 1..MaxSlots :
          page_cache = PageCache_new(page_size, pages, FILE_HEADER_SIZE)
    /\ iter = NoIter
    /\ results = <<>>
    /\ walked = <<>>
    /\ descent = NoDescent
    /\ loaded = NoLoad
    /\ mem = NoTree
    /\ replay = NoReplay
    /\ pc = "cache"

\* PageCache::load(pn).  victim is the page the chosen slot held when the
\* call missed on a full cache.
Load ==
    /\ pc = "cache"
    /\ \E pn \in 0..(Len(file.pages) - 1) :
          \E l \in {load(page_cache, file, pn)} :
              /\ page_cache' = l.cache
              /\ loaded' =
                    [page_number |-> pn, slot |-> l.slot, page |-> Loaded(l),
                     miss |-> pn \notin DOMAIN page_cache.page_map,
                     victim |->
                        IF /\ pn \notin DOMAIN page_cache.page_map
                           /\ ~(Cardinality(DOMAIN page_cache.page_map) < page_cache.pages)
                           /\ l.slot \in DOMAIN page_cache.slot_map
                        THEN Some(page_cache.slot_map[l.slot])
                        ELSE None,
                     err |-> FALSE]
    /\ UNCHANGED <<mem, replay, source, page_size, file, file_header, iter, results, walked,
                   descent, pc>>

\* PageCache::load(pn) that returns Err: the file read of a miss failed.
\* page is the buffer of the slot the call chose, which is not returned.
LoadFails ==
    /\ pc = "cache"
    /\ \E pn \in 0..(Len(file.pages) - 1) :
          /\ pn \notin DOMAIN page_cache.page_map
          /\ \E l \in {load_fails(page_cache, file, pn)} :
                /\ page_cache' = l.cache
                /\ loaded' =
                      [page_number |-> pn, slot |-> l.slot, page |-> Loaded(l),
                       miss |-> TRUE,
                       victim |->
                          IF l.slot \in DOMAIN page_cache.slot_map
                          THEN Some(page_cache.slot_map[l.slot])
                          ELSE None,
                       err |-> TRUE]
    /\ UNCHANGED <<mem, replay, source, page_size, file, file_header, iter, results, walked,
                   descent, pc>>

NextCache == Load \/ LoadFails

SpecCache == InitCache /\ [][NextCache]_vars

(***************************************************************************)
(* tests::check_query (file.rs:699-710): query, then next() until the      *)
(* iterator stops yielding; on a handle freshly opened with `slots` slots. *)
(***************************************************************************)
RECURSIVE drain(_, _, _, _, _)
drain(it, cache, f, overflow_checks, acc) ==
    LET r == next(it, cache, f, overflow_checks)
    IN  IF r.state = "YieldResult"
        THEN drain(r.it, r.cache, f, overflow_checks, Append(acc, r.result))
        ELSE [state |-> r.state, results |-> acc]

check_query(f, slots, q, overflow_checks) ==
    LET cache == PageCache_new(f.header.page_size, slots, FILE_HEADER_SIZE)
        r == query(f.header, cache, f, q, overflow_checks)
    IN  IF r.status = "Ok"
        THEN drain(QueryResultIterator_new(q, r.page_num, r.key_index), r.cache, f,
                   overflow_checks, <<>>)
        ELSE [state |-> "Panic", results |-> <<>>]

(***************************************************************************)
(* What the claims speak of.                                               *)
(***************************************************************************)
Range(seq) == {seq[i] : i \in 1..Len(seq)}

\* The entries of src the query q asks about, and of each date the latest.
Visible(src, q) ==
    {e \in Range(src) : /\ e.key.asset_id = q.asset_id
                        /\ q.start_date <= e.key.date
                        /\ e.key.date <= q.end_date
                        /\ e.key.timestamp <= q.timestamp}

Latest(src, q) ==
    {e \in Visible(src, q) :
        \A o \in Visible(src, q) :
            o.key.date = e.key.date => o.key.timestamp <= e.key.timestamp}

ProbeKey(q) == Key(q.asset_id, q.end_date, q.timestamp)

\* The file page numbered pn, when the file holds it.
FilePage(pn) == file.pages[pn + 1]

\* C1: when next() has reported the end of a query q on a file built from a
\* non-empty source, the results yielded are, one each, the latest visible
\* entry of every date of [q.start_date, q.end_date], and nothing else.
C1_QueryYieldsLatestPerDate ==
    (pc = "ended" /\ source # <<>>) =>
        /\ {[key |-> r.key, value |-> r.value] : r \in Range(results)}
              = Latest(source, iter.query)
        /\ Len(results) = Cardinality(Latest(source, iter.query))

\* C2: the buffer PageCache::load(p) returns holds the bytes of page p of the
\* file.
C2_LoadReturnsPageOfFile ==
    (pc = "cache" /\ loaded # NoLoad /\ ~loaded.err) =>
        loaded.page = FilePage(loaded.page_number)

\* C3: after BTree::query with a probe key k that is in the source, the page
\* the descent ended in is a leaf that holds k, and index_of(k) in it is the
\* position of k, where the value of k is stored.
C3_DescentFindsKey ==
    \A e \in Range(source) :
        (pc = "iterating" /\ results = <<>> /\ walked = <<>>
            /\ e.key = ProbeKey(iter.query)) =>
            /\ descent.page.page_type = LEAF_TYPE
            /\ descent.key_index = index_of(descent.page, e.key)
            /\ descent.key_index < descent.page.num_keys
            /\ key(descent.page, descent.key_index) = e.key
            /\ value(descent.page, descent.key_index) = e.value

\* C4: the page-to-slot map and the slot-to-page map of the cache are inverse
\* bijections.
C4_MapsAreInverse ==
    pc = "cache" =>
        /\ \A p \in DOMAIN page_cache.page_map :
              /\ page_cache.page_map[p] \in DOMAIN page_cache.slot_map
              /\ page_cache.slot_map[page_cache.page_map[p]] = p
        /\ \A p1, p2 \in DOMAIN page_cache.page_map :
              page_cache.page_map[p1] = page_cache.page_map[p2] => p1 = p2
        /\ \A sl \in DOMAIN page_cache.slot_map :
              /\ page_cache.slot_map[sl] \in DOMAIN page_cache.page_map
              /\ page_cache.page_map[page_cache.slot_map[sl]] = sl

\* A query whose walk starts at the last entry of the source and meets no
\* End rule: every entry is of the asset asked for, no date lies before
\* start_date and no key lies after the probe key.
FullWalk(src, q) ==
    \A e \in Range(src) : /\ e.key.asset_id = q.asset_id
                          /\ q.start_date <= e.key.date
                          /\ ~KeyLess(ProbeKey(q), e.key)

\* C5: the walk that starts at the last entry of the last leaf and runs back
\* to the sentinel reads the entries of the source in reverse order.
C5_ReverseWalkReadsSource ==
    (pc = "ended" /\ source # <<>> /\ FullWalk(source, iter.query)) =>
        walked = Reverse(source)

\* C6: the results of one query come in strictly descending date order.
C6_DatesStrictlyDescending ==
    \A i, j \in 1..Len(results) : i < j => results[i].key.date > results[j].key.date

C6_Witness ==
    /\ pc = "ended"
    /\ Len(results) >= 2
    /\ Len(walked) > Len(results)

\* C7: every result yielded is an entry of the source that the query asks
\* about, and carries the id of the query.
C7_ResultsAreVisibleEntries ==
    \A r \in Range(results) :
        /\ [key |-> r.key, value |-> r.value] \in Visible(source, iter.query)
        /\ r.id = iter.query.id

ObservedOn(src, a, d) == {e \in Range(src) : e.key.asset_id = a /\ e.key.date = d}

\* C8: for a query of a single date d on which the asset has observations:
\* asked as of the largest timestamp observed on d it returns exactly that
\* observation, asked as of a timestamp below every one observed on d it
\* returns nothing.
C8_SingleDateBoundaries ==
    LET q == iter.query
        obs == ObservedOn(source, q.asset_id, q.end_date)
    IN  (pc = "ended" /\ q.start_date = q.end_date /\ obs # {}) =>
            /\ \A e \in obs :
                  (e.key.timestamp = q.timestamp
                      /\ \A o \in obs : o.key.timestamp <= e.key.timestamp) =>
                  results = <<QueryResult(q, e.key, e.value)>>
            /\ (\A o \in obs : q.timestamp < o.key.timestamp) => results = <<>>

\* C9: the tree built from the same source with any other page size answers
\* the query with the same sequence of results.
C9_PageSizeDoesNotChangeResults ==
    pc = "ended" =>
        \A size \in PageSizes :
            LET other == write_from_iterator(size, source)
                answer == check_query(other, page_cache.pages, iter.query, FALSE)
            IN  (other.status = "Ok" /\ answer.state = "YieldNone") =>
                    answer.results = results

\* C10: the page that a miss on a full cache evicts is in neither map after
\* the load.
C10_EvictedPageIsUnmapped ==
    (pc = "cache" /\ loaded.victim # None /\ ~loaded.err) =>
        /\ Unwrap(loaded.victim) \notin DOMAIN page_cache.page_map
        /\ \A sl \in DOMAIN page_cache.slot_map :
              page_cache.slot_map[sl] # Unwrap(loaded.victim)

(***************************************************************************)
(* The shape of a built file.                                              *)
(***************************************************************************)
\* The root of the file is an inner page.
RootIsInner(f) ==
    /\ f.header.root_page_num < Len(f.pages)
    /\ f.pages[f.header.root_page_num + 1].page_type = INNER_TYPE

\* The file reads a handle has made since it was opened: every miss of
\* PageCache::load reads the file once and adds one page to page_map, which
\* nothing removes from.
FileReads(cache) == Cardinality(DOMAIN cache.page_map)

Child(page, i) ==
    IF i < key_capacity(page) THEN page_number(page, i) ELSE page.extra_page_num

\* The page numbers of the inner pages and of the leaves of a file.
InnerPages(f) == {pn \in 0..(Len(f.pages) - 1) : f.pages[pn + 1].page_type = INNER_TYPE}

LeafPages(f) == {pn \in 0..(Len(f.pages) - 1) : f.pages[pn + 1].page_type = LEAF_TYPE}

\* The keys a page stores in its first num_keys slots.
PageKeys(page) == {key(page, i) : i \in 0..(Min(page.num_keys, key_capacity(page)) - 1)}

\* The keys of the leaves reachable from page pn by following children,
\* through at most `depth` inner pages.
RECURSIVE SubtreeKeys(_, _, _)
SubtreeKeys(f, pn, depth) ==
    IF pn >= Len(f.pages) THEN {}
    ELSE LET page == f.pages[pn + 1]
         IN  IF page.page_type = LEAF_TYPE THEN PageKeys(page)
             ELSE IF depth = 0 THEN {}
             ELSE UNION {SubtreeKeys(f, Child(page, i), depth - 1) :
                             i \in 0..Min(page.num_keys, key_capacity(page))}

Reachable(f, pn) == SubtreeKeys(f, pn, Len(f.pages))

\* C12: in every inner page of a built file, separator s_i is the largest key
\* reachable through child c_i, and every key reachable through child
\* c_{i+1} is strictly greater than s_i.
C12_SeparatorsBoundChildren ==
    file.status = "Ok" =>
        \A pn \in InnerPages(file) :
            LET page == file.pages[pn + 1]
            IN  \A i \in 0..(page.num_keys - 1) :
                    /\ key(page, i) \in Reachable(file, Child(page, i))
                    /\ \A k \in Reachable(file, Child(page, i)) :
                          ~KeyLess(key(page, i), k)
                    /\ \A k \in Reachable(file, Child(page, i + 1)) :
                          KeyLess(key(page, i), k)

\* The page numbers of `pns`, largest first.
RECURSIVE Descending(_)
Descending(pns) ==
    IF pns = {} THEN <<>>
    ELSE LET largest == CHOOSE pn \in pns : \A o \in pns : o <= pn
         IN  <<largest>> \o Descending(pns \ {largest})

\* The pages met from page pn on by following the extra word of each, up to
\* the sentinel, the end of the file or `fuel` pages.
RECURSIVE BackChain(_, _, _)
BackChain(f, pn, fuel) ==
    IF pn = U32_MAX \/ pn >= Len(f.pages) \/ fuel = 0 THEN <<>>
    ELSE <<pn>> \o BackChain(f, f.pages[pn + 1].extra_page_num, fuel - 1)

\* C13: in a built file the back-pointers, followed from the last-written
\* leaf, visit the leaves and nothing else, each once, latest first, and the
\* first-written leaf, where the chain ends, carries the sentinel.
C13_BackPointersChainLeaves ==
    (file.status = "Ok" /\ LeafPages(file) # {}) =>
        LET leaves == Descending(LeafPages(file))
            chain == BackChain(file, leaves[1], Len(file.pages) + 1)
        IN  /\ chain = leaves
            /\ file.pages[leaves[Len(leaves)] + 1].extra_page_num = U32_MAX

C13_Witness ==
    /\ file.status = "Ok"
    /\ Cardinality(LeafPages(file)) >= 3
    /\ \E pn \in InnerPages(file) : \E l \in LeafPages(file) : pn < l

\* The length of the file in bytes: the header and the pages written.
FileLength(f) == FILE_HEADER_SIZE + Len(f.pages) * f.header.page_size

\* C14: after write_from_iterator returned Ok, page_count of the header is
\* the number of pages written to the file, and the file is
\* 12 + page_count * page_size bytes long.
C14_PageCountIsPagesWritten ==
    file.status = "Ok" =>
        /\ file.header.page_count = Len(file.pages)
        /\ FileLength(file) = 12 + file.header.page_count * file.header.page_size

\* C15: after write_from_iterator returned Ok on a non-empty source, the
\* header holds the page_size the build was given and the number of pages
\* written, and its root_page_num, page_count - 1, is the last page written.
C15_HeaderNamesLastPageAsRoot ==
    (file.status = "Ok" /\ source # <<>>) =>
        /\ file.header.page_size = page_size
        /\ file.header.page_count = Len(file.pages)
        /\ file.header.root_page_num = file.header.page_count - 1
        /\ file.header.root_page_num = Len(file.pages) - 1

C15_Witness ==
    /\ file.status = "Ok"
    /\ source # <<>>
    /\ RootIsInner(file)
    /\ file.header.root_page_num >= 2

\* The keys of a leaf in slot order.
LeafKeySeq(page) == [i \in 1..page.num_keys |-> key(page, i - 1)]

\* C16: in a built file the keys of every leaf strictly ascend, and of two
\* leaves written one after the other the first key of the later one is
\* strictly greater than the last key of the earlier one.
C16_LeafKeysAscend ==
    file.status = "Ok" =>
        LET leaves == Reverse(Descending(LeafPages(file)))
            keys_of(n) == LeafKeySeq(file.pages[leaves[n] + 1])
        IN  /\ \A n \in 1..Len(leaves) :
                  \A i, j \in 1..Len(keys_of(n)) :
                      i < j => KeyLess(keys_of(n)[i], keys_of(n)[j])
            /\ \A n \in 1..(Len(leaves) - 1) :
                  /\ keys_of(n) # <<>>
                  /\ keys_of(n + 1) # <<>>
                  /\ KeyLess(keys_of(n)[Len(keys_of(n))], keys_of(n + 1)[1])

C16_Witness ==
    /\ file.status = "Ok"
    /\ Cardinality(LeafPages(file)) >= 2
    /\ \E pn \in LeafPages(file) : file.pages[pn + 1].num_keys >= 2

(***************************************************************************)
(* The clock on its own: the Clock of a PageCache of 1..MaxClockSlots      *)
(* slots, under any sequence of Clock::set and Clock::evict calls.  Here   *)
(* `loaded` records the clock before the last call and what evict returned.*)
(***************************************************************************)
InitClock ==
    /\ source = <<>>
    /\ page_size = page_size_for_keys(1)
    /\ file = CacheFile(page_size, 1)
    /\ file_header = file.header
    /\ \E pages \in 1..MaxClockSlots :
          page_cache = PageCache_new(page_size, pages, FILE_HEADER_SIZE)
    /\ iter = NoIter
    /\ results = <<>>
    /\ walked = <<>>
    /\ descent = NoDescent
    /\ loaded = [before |-> page_cache.clock, res |-> None]
    /\ mem = NoTree
    /\ replay = NoReplay
    /\ pc = "clock"

\* self.clock.set(slot)
ClockSet ==
    /\ pc = "clock"
    /\ \E slot \in 0..(page_cache.pages - 1) :
          page_cache' = [page_cache EXCEPT !.clock = set(@, slot)]
    /\ loaded' = [before |-> page_cache.clock, res |-> None]
    /\ UNCHANGED <<mem, replay, source, page_size, file, file_header, iter, results, walked,
                   descent, pc>>

\* self.clock.evict()
ClockEvict ==
    /\ pc = "clock"
    /\ \E ev \in {evict(page_cache.clock)} :
          /\ page_cache' = [page_cache EXCEPT !.clock = ev.clock]
          /\ loaded' = [before |-> page_cache.clock, res |-> Some(ev.res)]
    /\ UNCHANGED <<mem, replay, source, page_size, file, file_header, iter, results, walked,
                   descent, pc>>

NextClock == ClockSet \/ ClockEvict

SpecClock == InitClock /\ [][NextClock]_vars

\* How far from the hand of clock c the first slot with a clear bit lies, or
\* c.slots when every bit is set.
SweepLength(c) ==
    LET clear_at == {d \in 0..(c.slots - 1) : ~test(c, (c.slot_index + d) % c.slots)}
    IN  IF clear_at = {} THEN c.slots
        ELSE CHOOSE d \in clear_at : \A o \in clear_at : d <= o

\* C17: Clock::evict started with the hand at h returns the first slot at or
\* after h, cyclically, whose bit was clear, or h after a full sweep when
\* every bit was set; it has cleared the bit of every slot it passed and no
\* other, and leaves the hand one past the returned slot modulo slots.
C17_EvictSweepsToFirstClearBit ==
    (pc = "clock" /\ loaded.res # None) =>
        LET c == loaded.before
            after == page_cache.clock
            h == c.slot_index
            swept == SweepLength(c)
            passed == {(h + j) % c.slots : j \in 0..(swept - 1)}
            res == Unwrap(loaded.res)
        IN  /\ res = (h + swept) % c.slots
            /\ (\E sl \in 0..(c.slots - 1) : ~test(c, sl)) => ~test(c, res)
            /\ \A sl \in 0..(c.slots - 1) :
                  test(after, sl) = (test(c, sl) /\ sl \notin passed)
            /\ after.slot_index = (res + 1) % c.slots
            /\ after.slots = c.slots

C17_Witness ==
    /\ pc = "clock"
    /\ loaded.res # None
    /\ loaded.before.slots > 8
    /\ test(loaded.before, loaded.before.slot_index)
    /\ Unwrap(loaded.res) < loaded.before.slot_index
    /\ Unwrap(loaded.res) # (loaded.before.slot_index + 1) % loaded.before.slots

\* C18: a PageCache::load of a page that is mapped changes neither map, nor
\* the hand of the clock, nor any slot buffer, and so reads nothing from the
\* file; it sets the reference bit of the page's slot and returns that
\* slot's buffer.
C18_HitOnlySetsReferenceBit ==
    [][(pc = "cache" /\ loaded'.page_number \in DOMAIN page_cache.page_map) =>
          LET slot_number == page_cache.page_map[loaded'.page_number]
          IN  /\ page_cache'.page_map = page_cache.page_map
              /\ page_cache'.slot_map = page_cache.slot_map
              /\ page_cache'.buf = page_cache.buf
              /\ FileReads(page_cache') = FileReads(page_cache)
              /\ page_cache'.clock.slot_index = page_cache.clock.slot_index
              /\ page_cache'.clock = set(page_cache.clock, slot_number)
              /\ test(page_cache'.clock, slot_number)
              /\ loaded'.slot = slot_number
              /\ loaded'.page = page_cache.buf[slot_number]]_vars

C18_Witness ==
    /\ pc = "cache"
    /\ loaded # NoLoad
    /\ ~loaded.miss
    /\ page_cache.pages >= 2
    /\ FileReads(page_cache) > page_cache.pages
    /\ page_cache.clock.slot_index # 0

(***************************************************************************)
(* Page::index_of on its own: a leaf or an inner page that holds up to     *)
(* MaxSearchKeys strictly ascending keys, searched for any probe key.      *)
(* `descent` holds the page and the index returned, `iter.query` the probe.*)
(***************************************************************************)
\* A page of the given type and key capacity whose first slots hold the keys
\* of ks in ascending order.
SearchPage(type, capacity, ks) ==
    LET entries == Ascending(ks)
        empty == PageBuffer_new(page_size_for_keys(capacity), type)
    IN  [empty EXCEPT !.num_keys = Len(entries),
                      !.keys = [i \in 1..capacity |->
                                   IF i <= Len(entries) THEN entries[i].key ELSE @[i]]]

InitIndexOf ==
    /\ source = <<>>
    /\ page_size = 0
    /\ file = NoFile
    /\ file_header = FileHeader(0, 0, 0)
    /\ page_cache = NoCache
    /\ iter = NoIter
    /\ results = <<>>
    /\ walked = <<>>
    /\ \E type \in {LEAF_TYPE, INNER_TYPE}, capacity \in 1..MaxSearchKeys :
          \E ks \in {t \in SUBSET Keys : Cardinality(t) <= capacity} :
              descent = [page_num |-> 0, key_index |-> 0,
                         page |-> SearchPage(type, capacity, ks)]
    /\ loaded = NoLoad
    /\ mem = NoTree
    /\ replay = NoReplay
    /\ pc = "search"

\* page.index_of(&key), with the probe key BTree::query makes of a query
IndexOf ==
    /\ pc = "search"
    /\ \E q \in Queries :
          /\ iter' = [NoIter EXCEPT !.query = q]
          /\ descent' = [descent EXCEPT !.key_index = index_of(descent.page, ProbeKey(q))]
    /\ pc' = "searched"
    /\ UNCHANGED <<mem, replay, source, page_size, file, file_header, page_cache, results,
                   walked, loaded>>

NextIndexOf == IndexOf

SpecIndexOf == InitIndexOf /\ [][NextIndexOf]_vars

\* C19: on a page of strictly ascending keys index_of(k) is, on a leaf, the
\* smallest index whose key is not below k, or num_keys when k is above
\* every key; on an inner page the number of separators not above k; and it
\* lies in 0..num_keys.
C19_IndexOfIsLowerBound ==
    pc = "searched" =>
        LET page == descent.page
            k == ProbeKey(iter.query)
            slots == 0..(page.num_keys - 1)
            not_below == {i \in slots : ~KeyLess(key(page, i), k)}
            not_above == {i \in slots : ~KeyLess(k, key(page, i))}
        IN  /\ descent.key_index \in 0..page.num_keys
            /\ page.page_type = LEAF_TYPE =>
                  /\ not_below = {} => descent.key_index = page.num_keys
                  /\ not_below # {} =>
                        /\ descent.key_index \in not_below
                        /\ \A i \in not_below : descent.key_index <= i
            /\ page.page_type = INNER_TYPE =>
                  descent.key_index = Cardinality(not_above)

C19_Witness ==
    /\ pc = "searched"
    /\ descent.page.page_type = INNER_TYPE
    /\ descent.page.num_keys >= 4
    /\ \E i \in 1..2 : key(descent.page, i) = ProbeKey(iter.query)
    /\ descent.key_index >= 2

\* C20: write_from_iterator on a source without entries does not return Ok,
\* or it has written the header and one page, an empty leaf, which the
\* header names as the root of a file of one page.
C20_EmptySourceWritesEmptyLeaf ==
    (pc \in {"built", "open", "iterating", "ended", "panicked"} /\ source = <<>>) =>
        \/ file.status # "Ok"
        \/ /\ file.header.page_count = 1
           /\ file.header.root_page_num = 0
           /\ Len(file.pages) = 1
           /\ file.pages[1].page_type = LEAF_TYPE
           /\ file.pages[1].num_keys = 0

\* C21: after a PageCache::load(p) whose file read failed, p is not mapped
\* to a slot whose buffer does not hold the bytes of page p, and the slot
\* the call chose either still belongs to the page that held it before or
\* belongs to no page.
C21_FailedLoadLeavesMapsConsistent ==
    (pc = "cache" /\ loaded.err) =>
        /\ loaded.page_number \in DOMAIN page_cache.page_map =>
              page_cache.buf[page_cache.page_map[loaded.page_number]]
                  = FilePage(loaded.page_number)
        /\ \/ loaded.slot \notin DOMAIN page_cache.slot_map
           \/ /\ loaded.victim # None
              /\ page_cache.slot_map[loaded.slot] = Unwrap(loaded.victim)
              /\ Unwrap(loaded.victim) \in DOMAIN page_cache.page_map
              /\ page_cache.page_map[Unwrap(loaded.victim)] = loaded.slot

(***************************************************************************)
(* Opening a file that write_from_iterator did not write: BTree::from_file *)
(* takes any File.  The header is any triple of small words; the pages,    *)
(* which from_file does not read, are page_count well-formed leaves.       *)
(***************************************************************************)
HeaderPageSizes == {0} \cup PageSizes

InitOpen ==
    /\ source = <<>>
    /\ page_size = 0
    /\ \E size \in HeaderPageSizes, count \in 0..MaxPages, root \in 0..(MaxPages + 1) :
          file = [status |-> "Ok", header |-> FileHeader(size, count, root),
                  pages |-> [i \in 1..count |-> CachePage(size, i - 1)]]
    /\ file_header = FileHeader(0, 0, 0)
    /\ page_cache = NoCache
    /\ iter = NoIter
    /\ results = <<>>
    /\ walked = <<>>
    /\ descent = NoDescent
    /\ loaded = NoLoad
    /\ mem = NoTree
    /\ replay = NoReplay
    /\ pc = "built"

NextOpen == FromFile

SpecOpen == InitOpen /\ [][NextOpen]_vars

\* C22: BTree::from_file does not return a handle on a file whose header
\* has page_size 0 or a root_page_num that is not below page_count.
C22_FromFileRejectsMalformedHeader ==
    pc = "open" =>
        /\ file.header.page_size # 0
        /\ file.header.root_page_num < file.header.page_count

(***************************************************************************)
(* Querying a damaged file: a file write_from_iterator built, in which the *)
(* page_type word of one page has since been overwritten with a value that *)
(* is neither LEAF_TYPE nor INNER_TYPE.                                    *)
(***************************************************************************)
BadPageTypes == {2}

InitDamaged ==
    /\ \E size \in PageSizes, src \in Sources \ {<<>>} :
          \E built \in {write_from_iterator(size, src)} :
              /\ built.status = "Ok"
              /\ source = src
              /\ page_size = size
              /\ \E pn \in 1..Len(built.pages), type \in BadPageTypes :
                    file = [built EXCEPT !.pages[pn].page_type = type]
    /\ file_header = FileHeader(0, 0, 0)
    /\ page_cache = NoCache
    /\ iter = NoIter
    /\ results = <<>>
    /\ walked = <<>>
    /\ descent = NoDescent
    /\ loaded = NoLoad
    /\ mem = NoTree
    /\ replay = NoReplay
    /\ pc = "built"

NextDamaged == FromFile \/ Query \/ Next_ \/ Drop

SpecDamaged == InitDamaged /\ [][NextDamaged]_vars

\* C23: BTree::query does not return an iterator, and the iterator yields
\* nothing, on a page whose page_type is neither 0 nor 1: the page the
\* descent ended on and the page the walk stands on are leaves or inner
\* pages.
C23_BadPageTypeIsAnError ==
    pc \in {"iterating", "ended"} =>
        /\ descent.page.page_type \in {LEAF_TYPE, INNER_TYPE}
        /\ Loaded(load(page_cache, file, iter.page_num)).page_type
              \in {LEAF_TYPE, INNER_TYPE}

\* The leaf of file f that holds key k, for a key of the source.
LeafOf(f, k) == CHOOSE pn \in LeafPages(f) : k \in PageKeys(f.pages[pn + 1])

\* The leaf of f the separators send probe key k to: the last leaf whose
\* first key is not above k, or the first leaf when there is none.
ProbeLeaf(f, k) ==
    LET at_or_below == {pn \in LeafPages(f) : ~KeyLess(k, key(f.pages[pn + 1], 0))}
        first == CHOOSE pn \in LeafPages(f) : \A o \in LeafPages(f) : pn <= o
    IN  IF at_or_below = {} THEN first
        ELSE CHOOSE pn \in at_or_below : \A o \in at_or_below : o <= pn

\* The least of a non-empty set of entries.
LeastEntry(es) == CHOOSE e \in es : \A o \in es : o = e \/ KeyLess(e.key, o.key)

\* C24: pages_read is 1 when BTree::query has returned, and when the last
\* result of a query has been yielded it is the number of leaves from the
\* descent leaf of the probe key back to the leaf that holds that result.
C24_PagesReadCountsLeavesWalked ==
    LET q == iter.query
        expected == Latest(source, q)
        last_leaf == LeafOf(file, LeastEntry(expected).key)
        first_leaf == ProbeLeaf(file, ProbeKey(q))
    IN  /\ (pc = "iterating" /\ results = <<>> /\ walked = <<>>) => iter.pages_read = 1
        /\ (pc = "iterating" /\ source # <<>> /\ expected # {}
               /\ Len(results) = Cardinality(expected)) =>
              iter.pages_read =
                  Cardinality({pn \in LeafPages(file) : last_leaf <= pn /\ pn <= first_leaf})

(***************************************************************************)
(* The in-memory B+ tree of src/src/btree/mem.rs.  A node lives in an      *)
(* Rc<RefCell<..>>: mem.nodes maps the identity of every live node to its  *)
(* contents, a strong pointer is the identity of its target and a Weak one *)
(* is the identity of its target or NoLeaf for Weak::new(); a Weak pointer *)
(* whose target is no longer in mem.nodes does not upgrade.  Positions in  *)
(* a Vec are 0-based as in the code: position i is element i + 1.  Every   *)
(* Vec is made by Vec::with_capacity(capacity) of the tree's capacity      *)
(* (capacity + 1 for pointers) and never grows, so the capacity of a Vec   *)
(* is passed along as the tree's.                                          *)
(***************************************************************************)
NoLeaf == 0

\* slice::binary_search on strictly ascending keys: Ok(position of key) or
\* Err(position to insert key at).
binary_search(keys, k) ==
    [ok |-> \E i \in 1..Len(keys) : keys[i] = k,
     index |-> Cardinality({i \in 1..Len(keys) : keys[i] < k})]

\* binary_search_by_key(&key, |value| value.0) on a leaf's kv.
binary_search_by_key(kv, k) == binary_search([i \in 1..Len(kv) |-> kv[i][1]], k)

\* Vec::insert(index, x), Vec::remove(index) and the two parts of
\* Vec::drain(from..len).
Vec_insert(v, index, x) == SubSeq(v, 1, index) \o <<x>> \o SubSeq(v, index + 1, Len(v))

Vec_remove(v, index) == SubSeq(v, 1, index) \o SubSeq(v, index + 2, Len(v))

Drained(v, from) == SubSeq(v, from + 1, Len(v))

Kept(v, from) == SubSeq(v, 1, from)

\* Rc::new: the identity of a node not yet in the heap.
NewNode(nodes) == Len(nodes) + 1

\* Leaf::new (mem.rs:41-47)
Leaf_new == [kind |-> "Leaf", kv |-> <<>>, next |-> NoLeaf, this |-> NoLeaf]

\* Leaf::lookup (mem.rs:61-66)
Leaf_lookup(leaf, k) ==
    LET found == binary_search_by_key(leaf.kv, k)
    IN  IF found.ok THEN Some(leaf.kv[found.index + 1][2]) ELSE None

\* Leaf::update (mem.rs:81-90): the leaf after the call and what it returns.
Leaf_update(leaf, k, v) ==
    LET found == binary_search_by_key(leaf.kv, k)
    IN  IF found.ok
        THEN [leaf |-> [leaf EXCEPT !.kv[found.index + 1] = <<k, v>>],
              ret |-> Some(leaf.kv[found.index + 1][2])]
        ELSE [leaf |-> leaf, ret |-> None]

\* Leaf::delete (mem.rs:130-139)
Leaf_delete(leaf, k) ==
    LET found == binary_search_by_key(leaf.kv, k)
    IN  IF found.ok
        THEN [leaf |-> [leaf EXCEPT !.kv = Vec_remove(@, found.index)],
              ret |-> Some(leaf.kv[found.index + 1][2])]
        ELSE [leaf |-> leaf, ret |-> None]

\* The result of a node's insert: the nodes after the call, the InsertResult
\* and the fields of SuccessSplit.  "Panic" is an index out of bounds,
\* "StackOverflow" a recursion that never returns.
InsertResult(nodes, result, split_key, split_node) ==
    [nodes |-> nodes, result |-> result, split_key |-> split_key,
     split_node |-> split_node]

\* Leaf::insert (mem.rs:92-128) on the leaf `id`.  The insert the split
\* branch makes into one of the two halves is the same function: it returns
\* SuccessNoSplit when the half has room; when the half is full again (the
\* new leaf took every entry, midpoint_index = 0) it splits the half the
\* same way and recurses on a leaf of the same contents, without end.
Leaf_insert(nodes, id, k, v, capacity) ==
    LET leaf == nodes[id]
        found == binary_search_by_key(leaf.kv, k)
    IN  IF found.ok THEN InsertResult(nodes, "Duplicate", 0, 0)
        ELSE IF Len(leaf.kv) < capacity
        THEN InsertResult([nodes EXCEPT ![id].kv = Vec_insert(@, found.index, <<k, v>>)],
                          "SuccessNoSplit", 0, 0)
        ELSE IF Len(leaf.kv) = 0 THEN InsertResult(nodes, "Panic", 0, 0)
        ELSE LET midpoint_index == Len(leaf.kv) \div 2
                 midpoint_key == leaf.kv[midpoint_index + 1][1]
                 moved == Drained(leaf.kv, midpoint_index)
                 kept == Kept(leaf.kv, midpoint_index)
                 half == IF k < midpoint_key THEN kept ELSE moved
                 filled == Vec_insert(half, binary_search_by_key(half, k).index, <<k, v>>)
                 split_node == NewNode(nodes)
                 new_leaf == [Leaf_new EXCEPT
                                 !.kv = IF k < midpoint_key THEN moved ELSE filled,
                                 !.this = split_node,
                                 !.next = leaf.next]
                 self == [leaf EXCEPT
                             !.kv = IF k < midpoint_key THEN filled ELSE kept,
                             !.next = split_node]
             IN  IF ~(Len(half) < capacity)
                 THEN InsertResult(nodes, "StackOverflow", 0, 0)
                 ELSE InsertResult(Append([nodes EXCEPT ![id] = self], new_leaf),
                                   "SuccessSplit", midpoint_key, split_node)

\* Leaf::merge_into_leaf (mem.rs:149-157) with self = nodes[right] and other =
\* nodes[left], as Leaf::merge (mem.rs:141-143) calls it: the entries move
\* to the left leaf, whose next is assigned its own value.
merge_into_leaf(nodes, right, left, capacity) ==
    IF Len(nodes[right].kv) + Len(nodes[left].kv) > capacity
    THEN [nodes |-> nodes, merged |-> FALSE]
    ELSE [nodes |-> [nodes EXCEPT ![left].kv = @ \o nodes[right].kv,
                                  ![left].next = nodes[left].next,
                                  ![right].kv = <<>>],
          merged |-> TRUE]

\* InternalNode::index_for (mem.rs:207-212)
index_for(keys, k) ==
    LET found == binary_search(keys, k)
    IN  IF found.ok THEN found.index + 1 ELSE found.index

\* InternalNode::insert_key_and_pointer (mem.rs:214-218)
insert_key_and_pointer(node, k, pointer) ==
    LET idx == index_for(node.keys, k)
    IN  [node EXCEPT !.keys = Vec_insert(@, idx, k),
                     !.pointers = Vec_insert(@, idx + 1, pointer)]

\* InternalNode::merge_into_internal_node (mem.rs:350-361) with self =
\* nodes[right] and other = nodes[left], as InternalNode::merge (mem.rs:320-324)
\* calls it.
merge_into_internal_node(nodes, right, midpoint_key, left, capacity) ==
    IF Len(nodes[right].pointers) + Len(nodes[left].pointers) > capacity + 1
    THEN [nodes |-> nodes, merged |-> FALSE]
    ELSE [nodes |-> [nodes EXCEPT
                        ![left].keys = (@ \o <<midpoint_key>>) \o nodes[right].keys,
                        ![left].pointers = @ \o nodes[right].pointers,
                        ![right].keys = <<>>,
                        ![right].pointers = <<>>],
          merged |-> TRUE]

\* Node::merge on the node `left` with other = `right` (mem.rs:141-143,
\* 320-324); the default merge_into_* of a node of the other kind refuses
\* (mem.rs:26-31).
merge(nodes, left, midpoint_key, right, capacity) ==
    IF nodes[left].kind = "Leaf" /\ nodes[right].kind = "Leaf"
    THEN merge_into_leaf(nodes, right, left, capacity)
    ELSE IF nodes[left].kind = "InternalNode" /\ nodes[right].kind = "InternalNode"
    THEN merge_into_internal_node(nodes, right, midpoint_key, left, capacity)
    ELSE [nodes |-> nodes, merged |-> FALSE]

\* The last strong pointer to a node goes away: the node is dropped and a
\* Weak pointer to it no longer upgrades.
Dropped == [kind |-> "Dropped"]

RECURSIVE Node_lookup(_, _, _)
\* Node::lookup (mem.rs:61-66, 222-225)
Node_lookup(nodes, id, k) ==
    IF nodes[id].kind = "Leaf" THEN Leaf_lookup(nodes[id], k)
    ELSE Node_lookup(nodes, nodes[id].pointers[index_for(nodes[id].keys, k) + 1], k)

RECURSIVE Node_update(_, _, _, _)
\* Node::update (mem.rs:81-90, 234-237): the nodes after the call and what it
\* returns.
Node_update(nodes, id, k, v) ==
    IF nodes[id].kind = "Leaf"
    THEN LET r == Leaf_update(nodes[id], k, v)
         IN  [nodes |-> [nodes EXCEPT ![id] = r.leaf], ret |-> r.ret]
    ELSE Node_update(nodes, nodes[id].pointers[index_for(nodes[id].keys, k) + 1], k, v)

\* The rest of InternalNode::insert (mem.rs:242-285) once the child has
\* returned `result`.
InternalNode_insert_result(id, result, capacity) ==
    LET nodes == result.nodes
        self == nodes[id]
        split_key == result.split_key
        split_node == result.split_node
    IN  IF result.result # "SuccessSplit" THEN result
        ELSE IF Len(self.keys) < capacity
        THEN InsertResult(
                 [nodes EXCEPT ![id] = insert_key_and_pointer(self, split_key, split_node)],
                 "SuccessNoSplit", 0, 0)
        ELSE IF Len(self.keys) = 0 THEN InsertResult(nodes, "Panic", 0, 0)
        ELSE LET midpoint_index == Len(self.keys) \div 2
                 midpoint_key == self.keys[midpoint_index + 1]
                 new_node == [kind |-> "InternalNode",
                              keys |-> Drained(self.keys, midpoint_index + 1),
                              pointers |-> Drained(self.pointers, midpoint_index + 1)]
                 truncated == [self EXCEPT
                                  !.keys = Kept(@, midpoint_index),
                                  !.pointers = Kept(@, midpoint_index + 1)]
             IN  IF split_key < midpoint_key
                 THEN InsertResult(
                          Append([nodes EXCEPT ![id] =
                                     insert_key_and_pointer(truncated, split_key, split_node)],
                                 new_node),
                          "SuccessSplit", midpoint_key, NewNode(nodes))
                 ELSE InsertResult(
                          Append([nodes EXCEPT ![id] = truncated],
                                 insert_key_and_pointer(new_node, split_key, split_node)),
                          "SuccessSplit", midpoint_key, NewNode(nodes))

RECURSIVE Node_insert(_, _, _, _, _)
\* Node::insert (mem.rs:92-128, 239-286)
Node_insert(nodes, id, k, v, capacity) ==
    IF nodes[id].kind = "Leaf" THEN Leaf_insert(nodes, id, k, v, capacity)
    ELSE InternalNode_insert_result(
             id,
             Node_insert(nodes, nodes[id].pointers[index_for(nodes[id].keys, k) + 1],
                         k, v, capacity),
             capacity)

\* The rest of InternalNode::delete (mem.rs:291-317) once the child at
\* delete_index has returned: merge it into its left sibling, or else its
\* right sibling into it; the node merged away is dropped.
InternalNode_delete_result(id, delete_index, result, capacity) ==
    LET nodes == result.nodes
        self == nodes[id]
        left_merge ==
            IF delete_index > 0
            THEN merge(nodes, self.pointers[delete_index], self.keys[delete_index],
                       self.pointers[delete_index + 1], capacity)
            ELSE [nodes |-> nodes, merged |-> FALSE]
        right_merge ==
            IF ~left_merge.merged /\ delete_index < Len(self.pointers) - 1
            THEN merge(nodes, self.pointers[delete_index + 1],
                       self.keys[delete_index + 1],
                       self.pointers[delete_index + 2], capacity)
            ELSE [nodes |-> nodes, merged |-> FALSE]
    IN  IF result.ret = None THEN result
        ELSE IF left_merge.merged
        THEN [nodes |-> [left_merge.nodes EXCEPT
                            ![id].keys = Vec_remove(@, delete_index - 1),
                            ![id].pointers = Vec_remove(@, delete_index),
                            ![self.pointers[delete_index + 1]] = Dropped],
              ret |-> result.ret]
        ELSE IF right_merge.merged
        THEN [nodes |-> [right_merge.nodes EXCEPT
                            ![id].keys = Vec_remove(@, delete_index),
                            ![id].pointers = Vec_remove(@, delete_index + 1),
                            ![self.pointers[delete_index + 2]] = Dropped],
              ret |-> result.ret]
        ELSE result

RECURSIVE Node_delete(_, _, _, _)
\* Node::delete (mem.rs:130-139, 288-318)
Node_delete(nodes, id, k, capacity) ==
    IF nodes[id].kind = "Leaf"
    THEN LET r == Leaf_delete(nodes[id], k)
         IN  [nodes |-> [nodes EXCEPT ![id] = r.leaf], ret |-> r.ret]
    ELSE LET delete_index == index_for(nodes[id].keys, k)
         IN  InternalNode_delete_result(
                 id, delete_index,
                 Node_delete(nodes, nodes[id].pointers[delete_index + 1], k, capacity),
                 capacity)

\* Leaf::lookup_range (mem.rs:68-79)
Leaf_lookup_range(leaf, from_key, to_key) ==
    [leaf |-> leaf.this, index |-> binary_search_by_key(leaf.kv, from_key).index,
     to_key |-> to_key]

RECURSIVE Node_lookup_range(_, _, _, _)
\* Node::lookup_range (mem.rs:68-79, 227-232)
Node_lookup_range(nodes, id, from_key, to_key) ==
    IF nodes[id].kind = "Leaf" THEN Leaf_lookup_range(nodes[id], from_key, to_key)
    ELSE Node_lookup_range(nodes, nodes[id].pointers[index_for(nodes[id].keys, from_key) + 1],
                           from_key, to_key)

\* Weak::upgrade: Some when the target is still alive.
upgrade(nodes, weak) == weak \in 1..Len(nodes) /\ nodes[weak].kind = "Leaf"

\* LookupRangeIterator::next without the step to the next leaf.
LookupRangeIterator_next_NoChain(nodes, it) ==
    IF ~upgrade(nodes, it.leaf) THEN [it |-> it, item |-> None]
    ELSE LET leaf == nodes[it.leaf]
         IN  IF it.index < Len(leaf.kv) /\ leaf.kv[it.index + 1][1] <= it.to_key
             THEN [it |-> [it EXCEPT !.index = @ + 1],
                   item |-> Some(leaf.kv[it.index + 1][2])]
             ELSE [it |-> it, item |-> None]

RECURSIVE LookupRangeIterator_next(_, _)
\* LookupRangeIterator::next (mem.rs:179-198): the iterator after the call and
\* the item.
LookupRangeIterator_next(nodes, it) ==
    IF ~upgrade(nodes, it.leaf) THEN [it |-> it, item |-> None]
    ELSE LET leaf == nodes[it.leaf]
         IN  IF it.index >= Len(leaf.kv)
             THEN LookupRangeIterator_next(nodes, [it EXCEPT !.leaf = leaf.next, !.index = 0])
             ELSE IF leaf.kv[it.index + 1][1] <= it.to_key
             THEN [it |-> [it EXCEPT !.index = @ + 1],
                   item |-> Some(leaf.kv[it.index + 1][2])]
             ELSE [it |-> it, item |-> None]

RECURSIVE collect(_, _)
\* Iterator::collect::<Vec<u32>>() on a LookupRangeIterator, as the tests
\* read a range (mem.rs:755, 771).
collect(nodes, it) ==
    LET r == LookupRangeIterator_next(nodes, it)
    IN  IF r.item = None THEN <<>> ELSE <<Unwrap(r.item)>> \o collect(nodes, r.it)

\* BTree::new (mem.rs:370-377)
BTree_new(capacity) ==
    [capacity |-> capacity, root |-> 1, nodes |-> <<[Leaf_new EXCEPT !.this = 1]>>]

\* BTree::lookup (mem.rs:387-393)
BTree_lookup(tree, k) == Node_lookup(tree.nodes, tree.root, k)

\* BTree::lookup_range (mem.rs:395-404)
BTree_lookup_range(tree, from_key, to_key) ==
    Node_lookup_range(tree.nodes, tree.root, from_key, to_key)

\* BTree::insert (mem.rs:406-431): the tree after the call, what it returns
\* and, when it does not return, how it ends.
BTree_insert(tree, k, v) ==
    LET result == Node_insert(tree.nodes, tree.root, k, v, tree.capacity)
        new_root == [kind |-> "InternalNode", keys |-> <<result.split_key>>,
                     pointers |-> <<tree.root, result.split_node>>]
    IN  CASE result.result = "SuccessNoSplit" ->
                 [tree |-> [tree EXCEPT !.nodes = result.nodes], ret |-> Some(TRUE),
                  crash |-> "no"]
          [] result.result = "SuccessSplit" ->
                 [tree |-> [tree EXCEPT !.nodes = Append(result.nodes, new_root),
                                        !.root = NewNode(result.nodes)],
                  ret |-> Some(TRUE), crash |-> "no"]
          [] result.result = "Duplicate" ->
                 [tree |-> tree, ret |-> Some(FALSE), crash |-> "no"]
          [] OTHER -> [tree |-> tree, ret |-> None, crash |-> result.result]

\* BTree::update (mem.rs:433-437)
BTree_update(tree, k, v) ==
    LET r == Node_update(tree.nodes, tree.root, k, v)
    IN  [tree |-> [tree EXCEPT !.nodes = r.nodes], ret |-> r.ret]

\* BTree::delete (mem.rs:439-443)
BTree_delete(tree, k) ==
    LET r == Node_delete(tree.nodes, tree.root, k, tree.capacity)
    IN  [tree |-> [tree EXCEPT !.nodes = r.nodes], ret |-> r.ret]

RECURSIVE Preorder(_, _)
RECURSIVE PreorderAll(_, _)
\* The nodes the tree owns through its strong pointers, parents first and
\* children from left to right.
Preorder(nodes, id) ==
    IF nodes[id].kind = "InternalNode"
    THEN <<id>> \o PreorderAll(nodes, nodes[id].pointers)
    ELSE <<id>>

PreorderAll(nodes, pointers) ==
    IF pointers = <<>> THEN <<>>
    ELSE Preorder(nodes, Head(pointers)) \o PreorderAll(nodes, Tail(pointers))

\* The heap once a call has returned: the dropped nodes are gone and the
\* live ones are named by their place in the tree, so that two trees equal
\* up to the addresses of their nodes are one state.  A Weak pointer to a
\* dropped node becomes NoLeaf: neither upgrades.
Owned(tree) ==
    LET order == Preorder(tree.nodes, tree.root)
        place(id) == IF \E i \in 1..Len(order) : order[i] = id
                     THEN CHOOSE i \in 1..Len(order) : order[i] = id
                     ELSE NoLeaf
        moved(node) ==
            IF node.kind = "Leaf"
            THEN [node EXCEPT !.next = place(@), !.this = place(@)]
            ELSE [node EXCEPT !.pointers = [i \in 1..Len(@) |-> place(@[i])]]
    IN  [capacity |-> tree.capacity, root |-> 1,
         nodes |-> [i \in 1..Len(order) |-> moved(tree.nodes[order[i]])]]

(***************************************************************************)
(* A mem::BTree of any capacity in 0..MaxMemCapacity under any sequence of *)
(* insert, update and delete calls with keys in 1..MaxMemKeys, each        *)
(* followed by any one lookup or lookup_range.  `replay` holds the finite  *)
(* map the same calls make from nothing, whether a delete was among them,  *)
(* the last call with its arguments, Some of what it returned (None when   *)
(* it did not return) and Some of what the map returns for it.             *)
(***************************************************************************)
MemCapacities == 0..MaxMemCapacity

MemKeys == 1..MaxMemKeys

MemValues == {1, 2}

\* The reference map is a set of <<key, value>> pairs with one pair a key.
Map_get(map, k) ==
    IF \E p \in map : p[1] = k THEN Some((CHOOSE p \in map : p[1] = k)[2]) ELSE None

Map_put(map, k, v) == {p \in map : p[1] # k} \cup {<<k, v>>}

Map_remove(map, k) == {p \in map : p[1] # k}

\* The values of the keys of the map within [from_key, to_key], in
\* ascending key order.
Map_range(map, from_key, to_key) ==
    LET within == {p \in map : from_key <= p[1] /\ p[1] <= to_key}
        nth(i) == CHOOSE p \in within : Cardinality({o \in within : o[1] < p[1]}) = i - 1
    IN  [i \in 1..Cardinality(within) |-> nth(i)[2]]

InitMem ==
    /\ source = <<>>
    /\ page_size = page_size_for_keys(1)
    /\ file = NoFile
    /\ file_header = FileHeader(0, 0, 0)
    /\ page_cache = NoCache
    /\ iter = NoIter
    /\ results = <<>>
    /\ walked = <<>>
    /\ descent = NoDescent
    /\ loaded = NoLoad
    /\ \E capacity \in MemCapacities : mem = BTree_new(capacity)
    /\ replay = NoReplay
    /\ pc = "mem"

\* tree.insert(k, v)
Insert ==
    /\ pc = "mem"
    /\ \E k \in MemKeys, v \in MemValues :
          \E r \in {BTree_insert(mem, k, v)} :
             \/ /\ r.crash = "no"
                /\ Len(r.tree.nodes) <= MaxMemNodes
                /\ mem' = Owned(r.tree)
                /\ replay' = [replay EXCEPT
                                 !.map = IF Map_get(@, k) = None THEN Map_put(@, k, v) ELSE @,
                                 !.call = "insert", !.args = <<k, v>>, !.ret = Some(r.ret),
                                 !.ref_ret = Some(Some(Map_get(replay.map, k) = None))]
                /\ pc' = "mem"
             \/ /\ r.crash # "no"
                /\ mem' = mem
                /\ replay' = [replay EXCEPT
                                 !.call = "insert", !.args = <<k, v>>, !.ret = None,
                                 !.ref_ret = Some(Some(Map_get(replay.map, k) = None))]
                /\ pc' = r.crash
    /\ UNCHANGED <<source, page_size, file, file_header, page_cache, iter, results,
                   walked, descent, loaded>>

\* tree.update(k, v)
Update ==
    /\ pc = "mem"
    /\ \E k \in MemKeys, v \in MemValues :
          \E r \in {BTree_update(mem, k, v)} :
             /\ mem' = Owned(r.tree)
             /\ replay' = [replay EXCEPT
                              !.map = IF Map_get(@, k) = None THEN @ ELSE Map_put(@, k, v),
                              !.call = "update", !.args = <<k, v>>, !.ret = Some(r.ret),
                              !.ref_ret = Some(Map_get(replay.map, k))]
    /\ UNCHANGED <<source, page_size, file, file_header, page_cache, iter, results,
                   walked, descent, loaded, pc>>

\* tree.delete(k)
Delete ==
    /\ pc = "mem"
    /\ \E k \in MemKeys :
          \E r \in {BTree_delete(mem, k)} :
             /\ mem' = Owned(r.tree)
             /\ replay' = [replay EXCEPT
                              !.map = Map_remove(@, k), !.deleted = TRUE,
                              !.call = "delete", !.args = <<k>>, !.ret = Some(r.ret),
                              !.ref_ret = Some(Map_get(replay.map, k))]
    /\ UNCHANGED <<source, page_size, file, file_header, page_cache, iter, results,
                   walked, descent, loaded, pc>>

\* tree.lookup(k)
Lookup ==
    /\ pc = "mem"
    /\ \E k \in MemKeys :
          replay' = [replay EXCEPT
                        !.call = "lookup", !.args = <<k>>,
                        !.ret = Some(BTree_lookup(mem, k)),
                        !.ref_ret = Some(Map_get(replay.map, k))]
    /\ pc' = "mem_read"
    /\ UNCHANGED <<mem, source, page_size, file, file_header, page_cache, iter, results,
                   walked, descent, loaded>>

\* tree.lookup_range(from, to).collect()
LookupRange ==
    /\ pc = "mem"
    /\ \E from_key \in MemKeys, to_key \in MemKeys :
          replay' = [replay EXCEPT
                        !.call = "lookup_range", !.args = <<from_key, to_key>>,
                        !.ret = Some(collect(mem.nodes,
                                             BTree_lookup_range(mem, from_key, to_key))),
                        !.ref_ret = Some(Map_range(replay.map, from_key, to_key))]
    /\ pc' = "mem_read"
    /\ UNCHANGED <<mem, source, page_size, file, file_header, page_cache, iter, results,
                   walked, descent, loaded>>

NextMem == Insert \/ Update \/ Delete \/ Lookup \/ LookupRange

SpecMem == InitMem /\ [][NextMem]_vars

\* C25: after any sequence of insert, update and delete calls on a tree of any
\* capacity, every insert, update, delete and lookup returns, and returns what
\* the reference map replaying the same calls returns: insert true exactly
\* for an absent key, update and delete the previous value or None, lookup
\* the value the map holds for the key or None.
C25_TreeRefinesMap ==
    replay.call \in {"insert", "update", "delete", "lookup"} => replay.ret = replay.ref_ret

\* C26: after any sequence of inserts and updates, lookup_range(from, to)
\* yields exactly the values of the stored keys k with from <= k <= to, in
\* ascending key order, whatever leaves they lie in, and nothing when no
\* stored key lies in the range.
C26_LookupRangeYieldsRange ==
    (replay.call = "lookup_range" /\ ~replay.deleted) => replay.ret = replay.ref_ret

\* A range read after inserts alone that yields more values than a leaf
\* holds, from a tree whose root is an internal node.
C26_Witness ==
    /\ replay.call = "lookup_range"
    /\ ~replay.deleted
    /\ mem.capacity >= 2
    /\ mem.nodes[mem.root].kind = "InternalNode"
    /\ Len(Unwrap(replay.ret)) > mem.capacity
    /\ replay.ret = replay.ref_ret

RECURSIVE preload(_, _, _)
\* A cache of as many slots as the file has pages after load(pn), load(pn + 1),
\* ... in page order on it: no slot is full, so page p goes to slot p
\* (cache.rs:104-105), where page_from_slot reads the bytes of file page p.
\* Every later load is a hit that returns the bytes of the page asked for,
\* as a read straight from the file does.
preload(cache, f, pn) ==
    IF pn >= Len(f.pages) THEN cache ELSE preload(load(cache, f, pn).cache, f, pn + 1)

\* check_query on a handle that reads each page straight from the file.
direct_query(f, q, overflow_checks) ==
    LET cache == preload(PageCache_new(f.header.page_size, Len(f.pages), FILE_HEADER_SIZE),
                         f, 0)
        r == query(f.header, cache, f, q, overflow_checks)
    IN  IF r.status = "Ok"
        THEN drain(QueryResultIterator_new(q, r.page_num, r.key_index), r.cache, f,
                   overflow_checks, <<>>)
        ELSE [state |-> "Panic", results |-> <<>>]

\* C27: the results of a query that has ended on a file built from a
\* non-empty source are those of the same query on a fresh handle of any
\* number of cache slots, and those of the same query reading each page
\* straight from the file.
C27_CacheIsTransparent ==
    (pc = "ended" /\ source # <<>>) =>
        /\ \A slots \in 1..MaxSlots :
              check_query(file, slots, iter.query, FALSE).results = results
        /\ direct_query(file, iter.query, FALSE).results = results

\* C28: write_from_iterator returns Ok for every non-empty strictly ascending
\* source and every page size of 32 bytes or more: no step of it writes a key
\* or a child at a slot the page buffer does not have.
C28_LoaderNeverWritesOutOfBounds ==
    (pc # "start" /\ source # <<>> /\ page_size >= page_size_for_keys(1)) =>
        file.status = "Ok"

\* C29: when the walk has ended on an inspected entry with asset_id <
\* q.asset_id or date < q.start_date, no entry of the source at or before
\* that entry in key order satisfies the query.
C29_EndMeansRegionPassed ==
    LET q == iter.query
        last == walked[Len(walked)]
    IN  (pc = "ended" /\ walked # <<>> /\ PastRegion(last.key, q)) =>
            \A e \in Visible(source, q) : KeyLess(last.key, e.key)

\* C30: when BTree::query has returned on a file built from a non-empty
\* source, the page of the file the iterator is positioned at is a leaf, its
\* index is within [0, num_keys - 1] of that leaf, and every entry of the
\* source with key <= probe is at or before the entry at that position in
\* key order.
C30_DescentStartsAfterEveryCandidate ==
    LET probe == ProbeKey(iter.query)
        page == FilePage(iter.page_num)
        key_index == Unwrap(iter.key_index)
    IN  (pc = "iterating" /\ results = <<>> /\ walked = <<>> /\ source # <<>>) =>
            /\ page.page_type = LEAF_TYPE
            /\ 0 <= key_index
            /\ key_index <= page.num_keys - 1
            /\ \A e \in Range(source) :
                  ~KeyLess(probe, e.key) => ~KeyLess(key(page, key_index), e.key)

\* The child references of the inner page pn of f: the pairs of pn and a
\* child index 0..num_keys.
ChildRefs(f, pn) ==
    {<<pn, i>> : i \in 0..Min(f.pages[pn + 1].num_keys, key_capacity(f.pages[pn + 1]))}

\* The level of page pn: 0 for a leaf, one more than its child 0 for an inner
\* page; -1 when pn is no page of the file or `fuel` ran out.
RECURSIVE Level(_, _, _)
Level(f, pn, fuel) ==
    IF pn >= Len(f.pages) \/ fuel = 0 THEN -1
    ELSE IF f.pages[pn + 1].page_type = LEAF_TYPE THEN 0
    ELSE LET below == Level(f, Child(f.pages[pn + 1], 0), fuel - 1)
         IN  IF below = -1 THEN -1 ELSE below + 1

\* The pages reachable from page pn by following children.
RECURSIVE Descendants(_, _, _)
Descendants(f, pn, fuel) ==
    IF pn >= Len(f.pages) \/ fuel = 0 THEN {}
    ELSE IF f.pages[pn + 1].page_type = LEAF_TYPE THEN {pn}
    ELSE {pn} \cup UNION {Descendants(f, Child(f.pages[r[1] + 1], r[2]), fuel - 1) :
                              r \in ChildRefs(f, pn)}

\* C31: in a file built from a non-empty source every page except the root
\* is the child of exactly one child reference, every inner page with
\* num_keys separators has num_keys + 1 child references that each name a
\* page of the file of the level directly below, and every leaf is reachable
\* from the root.
C31_EveryPageHasOneParent ==
    (file.status = "Ok" /\ source # <<>>) =>
        LET pages == 0..(Len(file.pages) - 1)
            root == file.header.root_page_num
            refs == UNION {ChildRefs(file, pn) : pn \in InnerPages(file)}
            target(r) == Child(file.pages[r[1] + 1], r[2])
            level(pn) == Level(file, pn, Len(file.pages) + 1)
        IN  /\ \A pn \in pages \ {root} :
                  Cardinality({r \in refs : target(r) = pn}) = 1
            /\ \A r \in refs :
                  /\ target(r) \in pages
                  /\ level(r[1]) >= 1
                  /\ level(target(r)) = level(r[1]) - 1
            /\ LeafPages(file) \subseteq Descendants(file, root, Len(file.pages) + 1)

(***************************************************************************)
(* The loader on its own: write_from_iterator on every strictly ascending  *)
(* source of up to MaxLoadEntries entries, enough for an overflow of an    *)
(* inner page to cascade into the level above at key capacity 1.           *)
(***************************************************************************)
LoadSources ==
    {Ascending(ks) : ks \in {t \in SUBSET Keys : Cardinality(t) <= MaxLoadEntries}}

InitLoad ==
    /\ source = <<>>
    /\ page_size = 0
    /\ file = NoFile
    /\ file_header = FileHeader(0, 0, 0)
    /\ page_cache = NoCache
    /\ iter = NoIter
    /\ results = <<>>
    /\ walked = <<>>
    /\ descent = NoDescent
    /\ loaded = NoLoad
    /\ mem = NoTree
    /\ replay = NoReplay
    /\ pc = "load"

\* BTree::write_from_iterator(file_name, size, src)
Build ==
    /\ pc = "load"
    /\ \E size \in PageSizes, src \in LoadSources :
          /\ source' = src
          /\ page_size' = size
          /\ file' = write_from_iterator(size, src)
          /\ pc' = IF file'.status = "Ok" THEN "built" ELSE "panicked"
    /\ UNCHANGED <<mem, replay, file_header, page_cache, iter, results, walked,
                   descent, loaded>>

NextLoad == Build

SpecLoad == InitLoad /\ [][NextLoad]_vars

\* Whether, from the loader state st on, every call of add_to_parent that
\* returns filled inner pages leaves in `page_number` the position in the
\* file of the last of them written, the one of the highest level, and the
\* inner page under construction one level above holds that number as a
\* child.
RECURSIVE FlushesRecorded(_)
FlushesRecorded(st) ==
    IF st.source = <<>> THEN TRUE
    ELSE LET res == add_to_parent(key(st.leaf_buf, 0), st.page_count, 0, st.lineage,
                                  st.page_size)
             top == Len(st.pages) + Len(res.filled) - 1
             parent == res.lineage[Len(res.filled) + 1]
         IN  /\ (st.last_leaf_page_num < U32_MAX /\ res.filled # <<>>) =>
                    /\ res.page_number = top
                    /\ \E i \in 0..parent.num_keys : Child(parent, i) = top
             /\ FlushesRecorded(leaf_round(st))

\* C32: in a built file each child page number stored in an inner page is
\* strictly smaller than the page number of that inner page, and whenever
\* the loader flushed filled inner pages the page number it recorded for
\* them in the level above is the position at which it wrote the page.
C32_InnerPagesFollowTheirChildren ==
    file.status = "Ok" =>
        /\ \A pn \in InnerPages(file) : \A r \in ChildRefs(file, pn) :
              Child(file.pages[pn + 1], r[2]) < pn
        /\ FlushesRecorded(loader_start(page_size, source))

\* A built file for which an overflow of the lowest inner page overflowed
\* the level above as well: three levels of inner pages.
C32_Witness ==
    /\ file.status = "Ok"
    /\ Cardinality(InnerPages(file)) >= 6
    /\ Cardinality(LeafPages(file)) = 8

\* The level of page pn counted through its last child, the one the loader
\* records together with the last separator: 0 for a leaf.
RECURSIVE LevelByLast(_, _, _)
LevelByLast(f, pn, fuel) ==
    IF pn >= Len(f.pages) \/ fuel = 0 THEN -1
    ELSE IF f.pages[pn + 1].page_type = LEAF_TYPE THEN 0
    ELSE LET page == f.pages[pn + 1]
             below == LevelByLast(f, Child(page, Min(page.num_keys, key_capacity(page))),
                                  fuel - 1)
         IN  IF below = -1 THEN -1 ELSE below + 1

C34_NoEvictionBeforeFull ==
    [][LET mapped == DOMAIN page_cache.page_map
           map_ == page_cache.page_map
           after == page_cache'.page_map
       IN  (pc = "cache" /\ loaded'.miss /\ Cardinality(mapped) < page_cache.pages) =>
               /\ loaded'.slot = Cardinality(mapped)
               /\ loaded'.victim = None
               /\ page_cache'.clock.slot_index = page_cache.clock.slot_index
               /\ \A sl \in 0..(page_cache.pages - 1) :
                     test(page_cache.clock, sl) => test(page_cache'.clock, sl)
               /\ \A p \in mapped : p \in DOMAIN after /\ after[p] = map_[p]
               /\ loaded'.page_number \in DOMAIN after
               /\ \A p1, p2 \in DOMAIN after : after[p1] = after[p2] => p1 = p2
      ]_vars

\* The load that maps the last unallocated slot of a cache of two or more
\* slots.
C34_Witness ==
    /\ pc = "cache"
    /\ loaded # NoLoad
    /\ loaded.miss
    /\ ~loaded.err
    /\ page_cache.pages >= 2
    /\ Cardinality(DOMAIN page_cache.page_map) = page_cache.pages
    /\ loaded.slot = page_cache.pages - 1
    /\ loaded.victim = None

\* C35: after any sequence of PageCache::load calls the number of pages the
\* cache maps is at most its number of slots, and the clock hand is within
\* [0, slots).
C35_PoolHasFixedCapacity ==
    pc = "cache" =>
        /\ Cardinality(DOMAIN page_cache.page_map) <= page_cache.pages
        /\ 0 <= page_cache.clock.slot_index
        /\ page_cache.clock.slot_index < page_cache.pages

(***************************************************************************)
(* The walk step by step: as Spec up to BTree::query, then each call of    *)
(* next() (file.rs:508-524) as the steps of its loop, one call of iterate  *)
(* each.  pc is "stepping" while a call of next() is in its loop.  A call  *)
(* of next() runs until it returns, so the step is weakly fair.  The walk   *)
(* is followed up to the call that returns None, and while pages_read is   *)
(* at most MaxPagesRead.                                                   *)
(***************************************************************************)
\* let mut state = Ok(Continue) (file.rs:509)
NextCall ==
    /\ pc = "iterating"
    /\ pc' = "stepping"
    /\ UNCHANGED <<mem, replay, source, page_size, file, file_header, page_cache, iter,
                   results, walked, descent, loaded>>

\* state = self.iterate() and, when the loop ends, the match of file.rs:515-523
Iterate ==
    /\ pc = "stepping"
    /\ iter.pages_read <= MaxPagesRead
    /\ \E overflow_checks \in BOOLEAN :
          \E r \in {iterate(iter, page_cache, file, overflow_checks)} :
              /\ iter' = IF r.state = "YieldResult"
                         THEN [r.it EXCEPT !.last_yielded_date = Some(r.result.key.date)]
                         ELSE r.it
              /\ page_cache' = r.cache
              /\ results' = IF r.state = "YieldResult"
                            THEN Append(results, r.result) ELSE results
              /\ walked' = walked \o r.read
              /\ pc' = CASE r.state = "Continue" -> "stepping"
                         [] r.state = "YieldResult" -> "iterating"
                         [] r.state = "YieldNone" -> "ended"
                         [] OTHER -> "panicked"
    /\ UNCHANGED <<mem, replay, source, page_size, file, file_header, descent, loaded>>

NextWalk == WriteFromIterator \/ FromFile \/ Query \/ NextCall \/ Iterate

SpecWalk == Init /\ [][NextWalk]_vars /\ WF_vars(Iterate)

\* C36: on a file the loader produced every call of next() returns a result
\* or None, and every step of its loop that does not return either consumes
\* one entry of the current leaf or moves to a leaf of a strictly smaller
\* page number.
C36_NextTerminates ==
    /\ (pc = "stepping") ~> (pc \in {"iterating", "ended"})
    /\ [][(pc = "stepping" /\ pc' = "stepping") =>
             \/ /\ iter'.page_num = iter.page_num
                /\ iter.key_index # None
                /\ iter'.key_index = IF Unwrap(iter.key_index) = 0 THEN None
                                     ELSE Some(Unwrap(iter.key_index) - 1)
             \/ /\ iter.key_index = None
                /\ iter'.page_num < iter.page_num
                /\ FilePage(iter'.page_num).page_type = LEAF_TYPE]_vars

(***************************************************************************)
(* Failing page loads during next().  A load reads the file only on a      *)
(* miss, and on a file the loader built every load of a walk is a hit, so  *)
(* the handle is opened on a file write_from_iterator built in which the   *)
(* back-pointer word of the first leaf has since been overwritten with the *)
(* number of another page of the file: BTree::from_file accepts it.        *)
(***************************************************************************)
InitFail ==
    /\ \E size \in PageSizes, src \in Sources \ {<<>>} :
          \E built \in {write_from_iterator(size, src)} :
              /\ built.status = "Ok"
              /\ source = src
              /\ page_size = size
              /\ \E pn \in 1..(Len(built.pages) - 1) :
                    file = [built EXCEPT !.pages[1].extra_page_num = pn]
    /\ file_header = FileHeader(0, 0, 0)
    /\ page_cache = NoCache
    /\ iter = NoIter
    /\ results = <<>>
    /\ walked = <<>>
    /\ descent = NoDescent
    /\ loaded = NoLoad
    /\ mem = NoTree
    /\ replay = NoReplay
    /\ pc = "built"

\* The outcomes of a call of iterate in which a page load returns Err
\* (file.rs:527, 536): the iterator and the cache as the `?` leaves them.
\* The first load fails before anything is assigned; the second, the load of
\* the predecessor, after page_num and pages_read have been assigned.
iterate_fails(it, cache, f) ==
    LET first == IF it.page_num \in DOMAIN cache.page_map THEN {}
                 ELSE {[it |-> it, cache |-> load_fails(cache, f, it.page_num).cache]}
        l == load(cache, f, it.page_num)
        extra == Loaded(l).extra_page_num
        second == IF it.key_index = None /\ extra # U32_MAX
                     /\ extra \notin DOMAIN l.cache.page_map
                  THEN {[it |-> [it EXCEPT !.page_num = extra, !.pages_read = @ + 1],
                         cache |-> load_fails(l.cache, f, extra).cache]}
                  ELSE {}
    IN  first \cup second

\* state = self.iterate() returns Err and next() returns Some(Err(e))
\* (file.rs:521).
IterateFails ==
    /\ pc = "stepping"
    /\ \E r \in iterate_fails(iter, page_cache, file) :
          /\ iter' = r.it
          /\ page_cache' = r.cache
    /\ pc' = "iterating"
    /\ UNCHANGED <<mem, replay, source, page_size, file, file_header, results, walked,
                   descent, loaded>>

NextFail == FromFile \/ Query \/ NextCall \/ Iterate \/ IterateFails

SpecFail == InitFail /\ [][NextFail]_vars

C38_IteratorIsFused ==
    [][(pc = "ended" /\ pc' # "open") =>
          (pc' = "ended" /\ results' = results)]_vars

\* next() has returned None by the End rule after a result, and the call of
\* next() in this state returns None and leaves the iterator where it is.
C38_Witness ==
    /\ pc = "ended"
    /\ results # <<>>
    /\ iter.key_index # None
    /\ \A overflow_checks \in BOOLEAN :
          LET r == next(iter, page_cache, file, overflow_checks)
          IN  r.state = "YieldNone" /\ r.it = iter /\ r.cache = page_cache

\* C39: once a delete has been called, merging deletes included,
\* lookup_range(from, to) still yields the values of all stored keys in
\* [from, to] in key order, those in leaves right of a merged leaf included.
C39_RangeSurvivesMerge ==
    (replay.call = "lookup_range" /\ replay.deleted) => replay.ret = replay.ref_ret

====
